---- MODULE Spec2Model ----
(***************************************************************************)
(* A model of wget2go: the chunked downloader (ChunkDownloader.Download,   *)
(* downloadWithChunks, downloadChunks, downloadChunk, downloadSingle, the  *)
(* resume-state codec), the CLI monitor that shares the downloader's error *)
(* channel, the URL queue manager and the robots.txt parser.               *)
(***************************************************************************)
EXTENDS Integers, Sequences, FiniteSets, TLC

(***************************************************************************)
(* Bounds of the model.                                                    *)
(***************************************************************************)
MaxLen     == 3   \* largest Content-Length the server reports (download model)
MaxChunkSz == 2   \* largest configured chunk_size (download model)
MaxThr     == 2   \* largest configured max_threads (download model)
PartLen    == 9   \* largest Content-Length tried for the partition
PartChunk  == 5   \* largest chunk_size tried for the partition
PartThr    == 4   \* largest max_threads tried for the partition

(***************************************************************************)
(* Program constants.                                                      *)
(***************************************************************************)
ErrorChCap == 100 \* make(chan error, 100)

VARIABLES
  \* ---- partition (downloadWithChunks, lines 407-445) as a pure function
  pL, pCS, pM, pChunks, pDone,
  \* ---- one chunked / single-stream download, possibly re-run
  cont,       \* config.Continue of the current run
  L, cs, m,   \* HEAD Content-Length, config.ChunkSize, config.MaxThreads
  ar,         \* HEAD advertised Accept-Ranges: bytes
  rs,         \* the server answers ranged GETs with 206
  dpc,        \* position of the Download call
  via,        \* which path produced the return value
  result,     \* "none" | "ok" | "err" | "killed"
  chunks,     \* []*types.Chunk of the current run
  tpc,        \* position of every chunk goroutine
  tw,         \* writeAtWriter of every chunk goroutine: [offset, written, expected]
  terr,       \* error kind returned by downloadChunk in every goroutine
  sem,        \* len(semaphore)
  mu,         \* holder of the downloadChunks mutex (0 = free)
  sv,         \* saveDownloadState in progress: the records read so far
  errorCh,    \* buffered contents of cd.errorCh
  appendMode, \* temp file handle opened with O_APPEND
  tmp, st, out, \* <output>.tmp, <output>.wget2go.state, <output>
  gets,       \* ranged GETs issued by chunk goroutines in the current run
  opened,     \* the current run opened or created <output>.tmp
  loaded,     \* stateLoaded: the current run restored chunks from the state file
  ld,         \* the chunks as loadDownloadState left them (<<>> if not loaded)
  probe,      \* rangeErr of the 0-0 probe: "none" | "ok" | "range" | "other"
  sreq,       \* downloadSingle locals: [rangeFrom, status, fileSize, pos, copied]
  hd,         \* what Client.Head returned to getFileInfo in the current run
  \* ---- queue.Manager and its types.URLQueue
  qJobs,      \* URLQueue.Jobs: the URLs of the queued jobs, in order
  qIndex,     \* URLQueue.Index: the URLs ever added and not removed
  blacklist, visited,
  qLast,      \* the last operation and what it returned
  \* ---- robots.Parser
  rbRules,    \* p.rules, in order of appearance
  rbDefaults, \* p.defaults: index into rbRules of the last "*" group, or 0
  rbLines,    \* number of lines parsed so far
  rbQuery,    \* the last query: [asked, ua, path, allowed, cached, manager]
  \* ---- utils.CalculateETA
  eT, eD, eS, \* the arguments total, downloaded, speed
  eta,        \* <<>> before the call, <<result>> after it
  \* ---- utils.SafeFileName
  fIn,        \* the file name passed in
  fOut,       \* the last result
  fCalls,     \* how many times SafeFileName was applied
  \* ---- RecursiveDownloader and its queue.Manager
  crCfg,      \* config: Recursive, RecursiveLevel, RobotsTxt
  crHost,     \* hostMap[host] of the start host: <<>> or <<the parsed rules>>
  crJobs,     \* URLQueue.Jobs: [URL, Level] in order
  crIndex,    \* URLQueue.Index
  crVisited,  \* Manager.visited
  crFiles,    \* the files under the output directory
  crDirs,     \* the directories created
  crLog,      \* what was done for which job: visit, skip, HEAD, GET, write, parse, fail
  crLinks,    \* the HTTP URLs the HTML pages written so far link to
  crPc,       \* "new" | "loop" | "done" | "cancelled"
  \* ---- converter.Converter, for one saved HTML page of a crawl
  cvDir,      \* c.baseDir, the output directory of the crawl
  cvFile,     \* the registered file name: where the page was saved
  cvData,     \* the content of that file
  cvURLs,     \* conversion.Result.URLs: the URL field of each entry, in order
  cvFiles,    \* the files that exist under the output directory
  cvOrig,     \* <file>.orig: <<>> or <<its content>>
  cvSaved,    \* the content of the file as the crawler wrote it
  cvPc,       \* "new" | "parsed" | "fetched" | "converted"
  \* ---- chunk.ChunkDownloader of chunk/downloader.go (Seek and io.Copy)
  skCfg,      \* [L, cs, m]: Content-Length, config.ChunkSize, config.MaxThreads
  skChunks,   \* []*types.Chunk
  skPc,       \* position of every chunk goroutine
  skGot,      \* body bytes each goroutine has written so far
  skCur,      \* the offset of the shared *os.File
  skTmp,      \* the bytes of <output>.tmp
  skSem,      \* len(semaphore)
  skErr,      \* len(cd.errorCh)
  skMain,     \* "new" | "run" | "ok" | "err"
  \* ---- saveDownloadState and loadDownloadState as a pair
  lsCfg,      \* [L, cs, m] of the run that saves
  lsSaved,    \* the chunks that run saved, <<>> when it saved nothing
  lsFile,     \* <output>.wget2go.state: [ex, ok, recs]
  lsChunks,   \* the fresh chunks handed to loadDownloadState
  lsOut,      \* the chunks after loadDownloadState
  lsRet,      \* what loadDownloadState returned: "none" | TRUE | FALSE
  lsPc,       \* "new" | "saved" | "loaded"
  \* ---- queue.Manager used by several goroutines
  qlJobs,     \* m.queue.Jobs
  qlIndex,    \* m.queue.Index
  qlMu,       \* the goroutine holding m.mutex, 0 when free
  qlPc,       \* position of every goroutine inside its Manager call
  qlArg,      \* locals of that call: [url, i]
  qlFail,     \* a goroutine panicked
  \* ---- one URL as the crawler saves it and as the link converter maps it
  mpURL,      \* the URL
  mpDir,      \* outputDir of Download, handed to SetBaseDir
  mpSaved,    \* getOutputPath(mpURL, mpDir), <<>> before the call
  mpTarget,   \* getURLPath(mpURL) under base dir mpDir, <<>> before the call
  mpPc,       \* which of the two calls were made: [saved, mapped]
  \* ---- http.Client with its ProxyManager
  pxCfg,      \* [enabled, http, https, noProxy, creds]: the proxy part of types.Config
  pxHttpIndex,  \* pm.httpIndex
  pxHttpsIndex, \* pm.httpsIndex
  pxLog,      \* the requests sent: [scheme, host, list, pos, auth]
  \* ---- downloadChunks with many chunks: goroutines counted by position
  wgCfg,      \* [MaxThreads, ContentLength, Failing]: max_threads, file size, chunks whose fetch fails
  wgGood,     \* chunk goroutines whose fetch succeeds: [pending, holding]
  wgBad,      \* chunk goroutines whose fetch fails: [pending, holding, sending]
  wgSem,      \* len(semaphore)
  wgErr,      \* len(cd.errorCh)
  wgMain,     \* downloadChunks: "loop", "wait", "drain", "nil" or "error"
  \* ---- reportProgress, the goroutine started by downloadChunks
  rpReceiver, \* does the caller receive from GetProgressChannel()
  rpMain,     \* Download: "running", or returned "nil" or "error"
  rpPc,       \* reportProgress: "select", "send" or "stopped"
  rpProgress, \* len(cd.progressCh)
  rpStop,     \* cd.stopCh is closed
  rpCtx,      \* the caller's context is cancelled
  \* ---- DownloadManager
  dmTasks,    \* dm.tasks: URL -> index of the task object in dmObjs, 0 when absent
  dmObjs,     \* the *types.DownloadTask objects created: [URL, Status, calls, resumed]
  dmGos,      \* the goroutines running downloadTask: [obj, pc, start]
  dmStarts,   \* the Start calls made: "wait", or returned "nil" or "error"
  dmErr       \* len(dm.errorCh)

ptVars == <<pL, pCS, pM, pChunks, pDone>>
dlVars == <<cont, L, cs, m, ar, rs, dpc, via, result, chunks, tpc, tw, terr,
            sem, mu, sv, errorCh, appendMode, tmp, st, out, gets,
            opened, loaded, ld, probe, sreq, hd>>
quVars == <<qJobs, qIndex, blacklist, visited, qLast>>
rbVars == <<rbRules, rbDefaults, rbLines, rbQuery>>
etaVars == <<eT, eD, eS, eta>>
sfVars == <<fIn, fOut, fCalls>>
crVars == <<crCfg, crHost, crJobs, crIndex, crVisited, crFiles, crDirs, crLog, crLinks, crPc>>
cvVars == <<cvDir, cvFile, cvData, cvURLs, cvFiles, cvOrig, cvSaved, cvPc>>
skVars == <<skCfg, skChunks, skPc, skGot, skCur, skTmp, skSem, skErr, skMain>>
lsVars == <<lsCfg, lsSaved, lsFile, lsChunks, lsOut, lsRet, lsPc>>
qlVars == <<qlJobs, qlIndex, qlMu, qlPc, qlArg, qlFail>>
mpVars == <<mpURL, mpDir, mpSaved, mpTarget, mpPc>>
pxVars == <<pxCfg, pxHttpIndex, pxHttpsIndex, pxLog>>
wgVars == <<wgCfg, wgGood, wgBad, wgSem, wgErr, wgMain>>
rpVars == <<rpReceiver, rpMain, rpPc, rpProgress, rpStop, rpCtx>>
dmVars == <<dmTasks, dmObjs, dmGos, dmStarts, dmErr>>
vars == <<ptVars, dlVars, quVars, rbVars, etaVars, sfVars, crVars, cvVars, skVars, lsVars, qlVars, mpVars, pxVars, wgVars, rpVars, dmVars>>

NotPt == <<dlVars, quVars, rbVars, etaVars, sfVars, crVars, cvVars, skVars, lsVars, qlVars, mpVars, pxVars, wgVars, rpVars, dmVars>>
NotDl == <<ptVars, quVars, rbVars, etaVars, sfVars, crVars, cvVars, skVars, lsVars, qlVars, mpVars, pxVars, wgVars, rpVars, dmVars>>
NotQu == <<ptVars, dlVars, rbVars, etaVars, sfVars, crVars, cvVars, skVars, lsVars, qlVars, mpVars, pxVars, wgVars, rpVars, dmVars>>
NotRb == <<ptVars, dlVars, quVars, etaVars, sfVars, crVars, cvVars, skVars, lsVars, qlVars, mpVars, pxVars, wgVars, rpVars, dmVars>>
NotEta == <<ptVars, dlVars, quVars, rbVars, sfVars, crVars, cvVars, skVars, lsVars, qlVars, mpVars, pxVars, wgVars, rpVars, dmVars>>
NotSf == <<ptVars, dlVars, quVars, rbVars, etaVars, crVars, cvVars, skVars, lsVars, qlVars, mpVars, pxVars, wgVars, rpVars, dmVars>>
NotCr == <<ptVars, dlVars, quVars, rbVars, etaVars, sfVars, cvVars, skVars, lsVars, qlVars, mpVars, pxVars, wgVars, rpVars, dmVars>>
NotCv == <<ptVars, dlVars, quVars, rbVars, etaVars, sfVars, crVars, skVars, lsVars, qlVars, mpVars, pxVars, wgVars, rpVars, dmVars>>
NotSk == <<ptVars, dlVars, quVars, rbVars, etaVars, sfVars, crVars, cvVars, lsVars, qlVars, mpVars, pxVars, wgVars, rpVars, dmVars>>
NotLs == <<ptVars, dlVars, quVars, rbVars, etaVars, sfVars, crVars, cvVars, skVars, qlVars, mpVars, pxVars, wgVars, rpVars, dmVars>>
NotQl == <<ptVars, dlVars, quVars, rbVars, etaVars, sfVars, crVars, cvVars, skVars, lsVars, mpVars, pxVars, wgVars, rpVars, dmVars>>
NotMp == <<ptVars, dlVars, quVars, rbVars, etaVars, sfVars, crVars, cvVars, skVars, lsVars, qlVars, pxVars, wgVars, rpVars, dmVars>>
NotPx == <<ptVars, dlVars, quVars, rbVars, etaVars, sfVars, crVars, cvVars, skVars, lsVars, qlVars, mpVars, wgVars, rpVars, dmVars>>
NotWg == <<ptVars, dlVars, quVars, rbVars, etaVars, sfVars, crVars, cvVars, skVars, lsVars, qlVars, mpVars, pxVars, rpVars, dmVars>>
NotRp == <<ptVars, dlVars, quVars, rbVars, etaVars, sfVars, crVars, cvVars, skVars, lsVars, qlVars, mpVars, pxVars, wgVars, dmVars>>
NotDm == <<ptVars, dlVars, quVars, rbVars, etaVars, sfVars, crVars, cvVars, skVars, lsVars, qlVars, mpVars, pxVars, wgVars, rpVars>>

Min(a, b) == IF a < b THEN a ELSE b
Max(a, b) == IF a > b THEN a ELSE b

(***************************************************************************)
(* Partition: calculateNumChunks and the loop of downloadWithChunks.       *)
(***************************************************************************)
calculateNumChunks(fileSize, chunkSize) ==
  IF chunkSize <= 0 THEN 1
  ELSE (fileSize \div chunkSize) + (IF fileSize % chunkSize # 0 THEN 1 ELSE 0)

NumChunks(len, chunkSz, maxThreads) ==
  LET n0 == calculateNumChunks(len, chunkSz)
  IN  IF n0 > maxThreads THEN maxThreads ELSE n0

\* A deliberately wrong partition: the last chunk gets the regular size.
MakeChunksNoRemainder(len, chunkSz, maxThreads) ==
  LET numChunks == NumChunks(len, chunkSz, maxThreads)
      chunkSize == len \div numChunks
  IN  [k \in 1..numChunks |->
         [Index |-> k - 1, Start |-> (k - 1) * chunkSize,
          End |-> (k - 1) * chunkSize + chunkSize - 1,
          Size |-> chunkSize, Completed |-> 0, Status |-> "Pending"]]

\* chunks[k] is the chunk with Index k-1.
MakeChunks(len, chunkSz, maxThreads) ==
  LET numChunks     == NumChunks(len, chunkSz, maxThreads)
      chunkSize     == len \div numChunks
      lastChunkSize == len - chunkSize * (numChunks - 1)
  IN  [k \in 1..numChunks |->
         LET start == (k - 1) * chunkSize
             end   == IF k = numChunks THEN start + lastChunkSize - 1
                                       ELSE start + chunkSize - 1
         IN  [Index |-> k - 1, Start |-> start, End |-> end,
              Size |-> end - start + 1, Completed |-> 0, Status |-> "Pending"]]

PartInit ==
  /\ pL \in 1..PartLen
  /\ pCS \in 1..PartChunk
  /\ pM \in 1..PartThr
  /\ pL > pCS
  /\ pChunks = <<>>
  /\ pDone = FALSE

Partition ==
  /\ ~pDone
  /\ pChunks' = MakeChunks(pL, pCS, pM)
  /\ pDone' = TRUE
  /\ UNCHANGED <<pL, pCS, pM, NotPt>>

(***************************************************************************)
(* queue.Manager over types.URLQueue.  The crawler calls the operations   *)
(* from one goroutine; each call is one step.                              *)
(***************************************************************************)
URLs == {"u1", "u2", "u3"}
MaxBatch == 2   \* longest slice passed to AddBatch

QuInit ==
  /\ qJobs = <<>> /\ qIndex = {}
  /\ blacklist = {} /\ visited = {}
  /\ qLast = [op |-> "none", url |-> "", ok |-> FALSE]

RbInit ==
  /\ rbRules = <<>> /\ rbDefaults = 0 /\ rbLines = 0
  /\ rbQuery = [asked |-> FALSE, ua |-> <<>>, path |-> <<>>, allowed |-> TRUE,
                cached |-> FALSE, manager |-> TRUE]

Range(q) == {q[i] : i \in 1..Len(q)}

\* A deliberately wrong Add: the index is maintained but not consulted.
QueueAddNoIndexCheck(jobs, index, u) ==
  [ok |-> TRUE, jobs |-> Append(jobs, u), index |-> index \cup {u}]

\* URLQueue.Add, types.go lines 194-205.
QueueAdd(jobs, index, u) ==
  IF u \in index
  THEN [ok |-> FALSE, jobs |-> jobs, index |-> index]
  ELSE [ok |-> TRUE, jobs |-> Append(jobs, u), index |-> index \cup {u}]

\* Manager.Add, manager.go lines 32-52.
Add(u) ==
  /\ IF u \in blacklist \/ u \in visited
     THEN /\ qLast' = [op |-> "Add", url |-> u, ok |-> FALSE]
          /\ UNCHANGED <<qJobs, qIndex>>
     ELSE LET r == QueueAdd(qJobs, qIndex, u) IN
          /\ qJobs' = r.jobs /\ qIndex' = r.index
          /\ qLast' = [op |-> "Add", url |-> u, ok |-> r.ok]
  /\ UNCHANGED <<blacklist, visited, NotQu>>

\* Manager.AddBatch, lines 188-205: the loop over the slice.
RECURSIVE BatchAdd(_, _, _)
BatchAdd(jobs, index, us) ==
  IF us = <<>> THEN [jobs |-> jobs, index |-> index]
  ELSE IF Head(us) \in blacklist \/ Head(us) \in visited
       THEN BatchAdd(jobs, index, Tail(us))
       ELSE LET r == QueueAdd(jobs, index, Head(us))
            IN  BatchAdd(r.jobs, r.index, Tail(us))

Batches == UNION {[1..n -> URLs] : n \in 1..MaxBatch}

AddBatch(us) ==
  /\ LET r == BatchAdd(qJobs, qIndex, us) IN
       qJobs' = r.jobs /\ qIndex' = r.index
  /\ qLast' = [op |-> "AddBatch", url |-> us[1], ok |-> TRUE]
  /\ UNCHANGED <<blacklist, visited, NotQu>>

\* Manager.Pop / URLQueue.Pop, types.go lines 208-219: the head leaves the
\* FIFO, the index keeps its URL.
Pop ==
  /\ IF qJobs = <<>>
     THEN qLast' = [op |-> "Pop", url |-> "", ok |-> FALSE] /\ UNCHANGED qJobs
     ELSE qLast' = [op |-> "Pop", url |-> Head(qJobs), ok |-> TRUE]
          /\ qJobs' = Tail(qJobs)
  /\ UNCHANGED <<qIndex, blacklist, visited, NotQu>>

\* Manager.Remove, lines 220-238.
Remove(u) ==
  /\ IF u \in qIndex /\ u \in Range(qJobs)
     THEN LET i == CHOOSE i \in 1..Len(qJobs) :
                     qJobs[i] = u /\ \A j \in 1..(i - 1) : qJobs[j] # u
          IN  /\ qJobs' = SubSeq(qJobs, 1, i - 1) \o SubSeq(qJobs, i + 1, Len(qJobs))
              /\ qIndex' = qIndex \ {u}
              /\ qLast' = [op |-> "Remove", url |-> u, ok |-> TRUE]
     ELSE /\ qLast' = [op |-> "Remove", url |-> u, ok |-> FALSE]
          /\ UNCHANGED <<qJobs, qIndex>>
  /\ UNCHANGED <<blacklist, visited, NotQu>>

MarkVisited(u) ==
  /\ visited' = visited \cup {u}
  /\ qLast' = [op |-> "MarkVisited", url |-> u, ok |-> TRUE]
  /\ UNCHANGED <<qJobs, qIndex, blacklist, NotQu>>

AddToBlacklist(u) ==
  /\ blacklist' = blacklist \cup {u}
  /\ qLast' = [op |-> "AddToBlacklist", url |-> u, ok |-> TRUE]
  /\ UNCHANGED <<qJobs, qIndex, visited, NotQu>>

RemoveFromBlacklist(u) ==
  /\ blacklist' = blacklist \ {u}
  /\ qLast' = [op |-> "RemoveFromBlacklist", url |-> u, ok |-> TRUE]
  /\ UNCHANGED <<qJobs, qIndex, visited, NotQu>>

ClearBlacklist ==
  /\ blacklist' = {}
  /\ qLast' = [op |-> "ClearBlacklist", url |-> "", ok |-> TRUE]
  /\ UNCHANGED <<qJobs, qIndex, visited, NotQu>>

ClearVisited ==
  /\ visited' = {}
  /\ qLast' = [op |-> "ClearVisited", url |-> "", ok |-> TRUE]
  /\ UNCHANGED <<qJobs, qIndex, blacklist, NotQu>>

\* Manager.Clear, lines 156-164.
Clear ==
  /\ qJobs' = <<>> /\ qIndex' = {} /\ blacklist' = {} /\ visited' = {}
  /\ qLast' = [op |-> "Clear", url |-> "", ok |-> TRUE]
  /\ UNCHANGED NotQu

QuNext ==
  \/ \E u \in URLs : Add(u)
  \/ \E us \in Batches : AddBatch(us)
  \/ Pop
  \/ \E u \in URLs : Remove(u)
  \/ \E u \in URLs : MarkVisited(u)
  \/ \E u \in URLs : AddToBlacklist(u)
  \/ \E u \in URLs : RemoveFromBlacklist(u)
  \/ ClearBlacklist
  \/ ClearVisited
  \/ Clear

(***************************************************************************)
(* robots.Parser.  Strings are tuples of one-character strings.  A line of *)
(* robots.txt is taken as the key and value that Parse splits it into.     *)
(***************************************************************************)
MaxLines == 3   \* lines of robots.txt that are parsed

\* Values of Disallow and Allow lines: empty, the root, a literal prefix, a
\* prefix holding the regular-expression operator +, an end-anchored path,
\* a wildcard.
Patterns == { <<>>, <<"/">>, <<"/", "a">>, <<"/", "+", "a">>,
              <<"/", "a", "$">>, <<"/", "*", "a">> }
\* Values of User-agent lines, and user agents of requests.
RuleAgents == { <<"*">>, <<"b">>, <<"B", "o">>, <<>> }
QueryAgents == { <<"b", "o">>, <<"B">>, <<"x">> }
PathChars == {"/", "a", "+"}
MaxPath == 3    \* longest URL path queried
Paths == {p \in UNION {[1..n -> PathChars] : n \in 1..MaxPath} : p[1] = "/"}

LowerChar(c) == IF c = "B" THEN "b" ELSE c
ToLower(str) == [i \in 1..Len(str) |-> LowerChar(str[i])]

\* strings.Contains
Contains(str, sub) ==
  \E i \in 0..(Len(str) - Len(sub)) :
     \A j \in 1..Len(sub) : str[i + j] = sub[j]

\* strings.HasPrefix
HasPrefix(str, pre) ==
  /\ Len(pre) <= Len(str)
  /\ \A j \in 1..Len(pre) : str[j] = pre[j]

\* matchPath lines 525-530: "*" becomes ".*", ".*" is appended unless the
\* pattern ends in "$", and the text is compiled as a regular expression.
\* The tokens of that expression: a literal character, a literal under the
\* operator +, ".*", and the end-of-text assertion $.
RECURSIVE Tokens(_)
Tokens(pat) ==
  IF pat = <<>> THEN <<>>
  ELSE IF Head(pat) = "*" THEN <<[t |-> "any", c |-> ""]>> \o Tokens(Tail(pat))
  ELSE IF Head(pat) = "$" THEN <<[t |-> "end", c |-> ""]>> \o Tokens(Tail(pat))
  ELSE IF Len(pat) >= 2 /\ pat[2] = "+"
       THEN <<[t |-> "plus", c |-> Head(pat)]>> \o Tokens(Tail(Tail(pat)))
  ELSE <<[t |-> "lit", c |-> Head(pat)]>> \o Tokens(Tail(pat))

\* The patterns regexp.MustCompile accepts: + has a literal to repeat.
RECURSIVE ValidPattern(_)
ValidPattern(pat) ==
  IF pat = <<>> THEN TRUE
  ELSE IF Head(pat) = "+" THEN FALSE
  ELSE IF Len(pat) >= 2 /\ pat[2] = "+"
       THEN Head(pat) \notin {"*", "$"} /\ ValidPattern(Tail(Tail(pat)))
  ELSE ValidPattern(Tail(pat))

Regex(pattern) ==
  Tokens(pattern) \o
    (IF pattern # <<>> /\ pattern[Len(pattern)] = "$"
     THEN <<>> ELSE <<[t |-> "any", c |-> ""]>>)

\* Does the text from position j on match the tokens from i on, up to the
\* end of the text ("^...$").
RECURSIVE Match(_, _, _, _)
Match(toks, i, str, j) ==
  IF i > Len(toks) THEN j = Len(str) + 1
  ELSE LET tok == toks[i] IN
    IF tok.t = "any"
    THEN \E j2 \in j..(Len(str) + 1) : Match(toks, i + 1, str, j2)
    ELSE IF tok.t = "end"
    THEN j = Len(str) + 1 /\ Match(toks, i + 1, str, j)
    ELSE IF tok.t = "plus"
    THEN \E j2 \in (j + 1)..(Len(str) + 1) :
            /\ \A x \in j..(j2 - 1) : str[x] = tok.c
            /\ Match(toks, i + 1, str, j2)
    ELSE /\ j <= Len(str) /\ str[j] = tok.c
         /\ Match(toks, i + 1, str, j + 1)

matchPath(path, pattern) == Match(Regex(pattern), 1, path, 1)

\* Parse lines 406-426: a User-agent line opens a new rule, which becomes
\* the current one; "*" also becomes the default rule.
ParseUserAgent(v) ==
  /\ ~rbQuery.asked /\ rbLines < MaxLines
  /\ rbLines' = rbLines + 1
  /\ rbRules' = Append(rbRules, [UserAgent |-> ToLower(v), Disallow |-> <<>>,
                                 Allow |-> <<>>, lines |-> <<>>])
  /\ rbDefaults' = IF ToLower(v) = <<"*">> THEN Len(rbRules) + 1 ELSE rbDefaults
  /\ UNCHANGED <<rbQuery, NotRb>>

\* Lines 428-436.  An empty value empties the list of the current rule.
\* The field lines keeps the values of the Disallow lines as they came.
DisallowAfter(list, v) == IF v = <<>> THEN <<>> ELSE Append(list, v)

ParseDisallow(v) ==
  /\ ~rbQuery.asked /\ rbLines < MaxLines
  /\ rbLines' = rbLines + 1
  /\ IF rbRules # <<>>
     THEN rbRules' = [rbRules EXCEPT
            ![Len(rbRules)].Disallow = DisallowAfter(@, v),
            ![Len(rbRules)].lines = Append(@, v)]
     ELSE UNCHANGED rbRules
  /\ UNCHANGED <<rbDefaults, rbQuery, NotRb>>

\* Lines 438-441.
ParseAllow(v) ==
  /\ ~rbQuery.asked /\ rbLines < MaxLines
  /\ rbLines' = rbLines + 1
  /\ IF rbRules # <<>>
     THEN rbRules' = [rbRules EXCEPT ![Len(rbRules)].Allow = Append(@, v)]
     ELSE UNCHANGED rbRules
  /\ UNCHANGED <<rbDefaults, rbQuery, NotRb>>

\* Blank lines, comments, lines without ":", crawl-delay, sitemap, unknown
\* keys: no rule changes its paths.
ParseOther ==
  /\ ~rbQuery.asked /\ rbLines < MaxLines
  /\ rbLines' = rbLines + 1
  /\ UNCHANGED <<rbRules, rbDefaults, rbQuery, NotRb>>

\* A getRule that prefers the default rule to the rule of the user agent.
getRuleDefaultFirst(rules, defaults, ua) ==
  IF defaults # 0 THEN defaults
  ELSE IF \E i \in 1..Len(rules) : Contains(ToLower(ua), rules[i].UserAgent)
       THEN CHOOSE i \in 1..Len(rules) :
              /\ Contains(ToLower(ua), rules[i].UserAgent)
              /\ \A j \in 1..(i - 1) : ~Contains(ToLower(ua), rules[j].UserAgent)
       ELSE 0

\* getRule lines 503-518: index of the rule used for ua, 0 for none.
getRule(rules, defaults, ua) ==
  LET hits == {i \in 1..Len(rules) :
                 /\ rules[i].UserAgent # <<"*">>
                 /\ Contains(ToLower(ua), rules[i].UserAgent)}
  IN  IF hits # {} THEN CHOOSE i \in hits : \A j \in hits : i <= j
      ELSE defaults

\* IsAllowed lines 470-500, on the path of the URL.
IsAllowed(rules, defaults, path, ua) ==
  LET r == getRule(rules, defaults, ua) IN
    IF r = 0 THEN TRUE
    ELSE IF \E i \in 1..Len(rules[r].Allow) : matchPath(path, rules[r].Allow[i])
         THEN TRUE
    ELSE IF \E i \in 1..Len(rules[r].Disallow) :
               matchPath(path, rules[r].Disallow[i])
         THEN FALSE
    ELSE TRUE

(***************************************************************************)
(* Files.  A data file is [ex, b]: whether it exists and its bytes.  The   *)
(* server's resource has byte k+1 at offset k, so a hole (a zero byte that *)
(* no write filled) differs from every byte of the resource.               *)
(***************************************************************************)
NoFile    == [ex |-> FALSE, b |-> <<>>]
EmptyFile == [ex |-> TRUE, b |-> <<>>]
NoState   == [ex |-> FALSE, ok |-> TRUE, recs |-> <<>>]

Data(len) == [k \in 1..len |-> k]

\* os.File.WriteAt of the one byte `byte` at offset off on a file not in
\* append mode: the file grows to off+1 when shorter, the gap reads as zeros.
PutByte(b, off, byte) ==
  [k \in 1..Max(Len(b), off + 1) |->
     IF k = off + 1 THEN byte ELSE IF k <= Len(b) THEN b[k] ELSE 0]

\* os.File.WriteAt: fails with n = 0 on a handle opened with O_APPEND.
WriteAt(file, off, byte, app) ==
  IF app THEN [n |-> 0, b |-> file.b]
  ELSE [n |-> 1, b |-> PutByte(file.b, off, byte)]

(***************************************************************************)
(* Resume state codec.                                                     *)
(***************************************************************************)
\* types.TaskStatus is an int: Pending, Downloading, Completed, Failed and
\* Paused are 0..4 (types.go lines 68-74).  int(chunk.Status) writes the
\* number, TaskStatus(state.Status) takes any number back.
StatusInt(status) ==
  CASE status = "Pending" -> 0
    [] status = "Downloading" -> 1
    [] status = "Completed" -> 2
    [] status = "Failed" -> 3
    [] status = "Paused" -> 4
    [] OTHER -> status

TaskStatus(n) ==
  CASE n = 0 -> "Pending"
    [] n = 1 -> "Downloading"
    [] n = 2 -> "Completed"
    [] n = 3 -> "Failed"
    [] n = 4 -> "Paused"
    [] OTHER -> n

\* The record saveDownloadState builds for a chunk, lines 926-935.
ChunkState(c) == [Index |-> c.Index, Start |-> c.Start, End |-> c.End,
                  Size |-> c.Size, Completed |-> c.Completed,
                  Status |-> StatusInt(c.Status)]

\* loadDownloadState without the comparison of start and end at line 976.
loadDownloadStateAnyRange(recs, cks) ==
  [k \in 1..Len(cks) |->
     IF \E j \in 1..Len(recs) : recs[j].Index = cks[k].Index
     THEN LET state == recs[CHOOSE j \in 1..Len(recs) :
                              /\ recs[j].Index = cks[k].Index
                              /\ \A i \in (j + 1)..Len(recs) :
                                    recs[i].Index # cks[k].Index]
          IN  [cks[k] EXCEPT !.Completed = state.Completed,
                             !.Status = TaskStatus(state.Status)]
     ELSE cks[k]]

\* loadDownloadState, lines 974-993: records are matched by Index; a record
\* whose range differs resets the chunk.
loadDownloadState(recs, cks) ==
  [k \in 1..Len(cks) |->
     IF \E j \in 1..Len(recs) : recs[j].Index = cks[k].Index
     THEN LET j == CHOOSE j \in 1..Len(recs) :
                     /\ recs[j].Index = cks[k].Index
                     /\ \A i \in (j + 1)..Len(recs) : recs[i].Index # cks[k].Index
              state == recs[j]
          IN  IF cks[k].Start = state.Start /\ cks[k].End = state.End
              THEN [cks[k] EXCEPT !.Completed = state.Completed,
                                  !.Status = TaskStatus(state.Status)]
              ELSE [cks[k] EXCEPT !.Completed = 0, !.Status = "Pending"]
     ELSE cks[k]]

(***************************************************************************)
(* Download: the main thread.                                              *)
(***************************************************************************)
\* A deliberately wrong decision: what the HEAD response advertised is not
\* looked at.
shouldUseChunksIgnoringRanges(len) == cs > 0 /\ len > cs

\* shouldUseChunks, lines 396-404.
shouldUseChunks(len) == cs > 0 /\ len > cs /\ ar

\* isRangeNotSupportedError on the error kinds of the model: "range" is the
\* error DownloadRange builds for a status other than 206.
isRangeNotSupportedError(kind) == kind = "range"

NoHead == [err |-> FALSE, StatusCode |-> 0, ContentLength |-> 0, AcceptRanges |-> FALSE]

NoReq == [rangeFrom |-> -1, status |-> 0, fileSize |-> 0, pos |-> 0, copied |-> 0]

Memory0 ==
  /\ chunks' = <<>> /\ tpc' = <<>> /\ tw' = <<>> /\ terr' = <<>>
  /\ sem' = 0 /\ mu' = 0 /\ sv' = <<>> /\ errorCh' = <<>>
  /\ appendMode' = FALSE /\ gets' = <<>>
  /\ opened' = FALSE /\ loaded' = FALSE /\ sreq' = NoReq
  /\ ld' = <<>> /\ probe' = "none" /\ hd' = NoHead

DlInit ==
  /\ cont = FALSE
  /\ L \in 1..MaxLen /\ cs \in 0..MaxChunkSz /\ m \in 1..MaxThr
  /\ ar \in BOOLEAN /\ rs \in BOOLEAN
  /\ dpc = "idle" /\ via = "none" /\ result = "none"
  /\ chunks = <<>> /\ tpc = <<>> /\ tw = <<>> /\ terr = <<>>
  /\ sem = 0 /\ mu = 0 /\ sv = <<>> /\ errorCh = <<>>
  /\ appendMode = FALSE /\ gets = <<>>
  /\ opened = FALSE /\ loaded = FALSE /\ sreq = NoReq
  /\ ld = <<>> /\ probe = "none" /\ hd = NoHead
  /\ tmp = NoFile /\ st = NoState /\ out = NoFile

Disk == <<tmp, st, out>>
Server == <<L, cs, m, ar, rs>>
Tasks == <<chunks, tpc, tw, terr, sem, mu, sv, gets>>

\* The program is started: the CLI starts its monitor and calls Download.
\* It is started again on the same disk after any run but a chunked
\* download that succeeded.
StartRun ==
  /\ dpc \in {"idle", "done"}
  /\ ~(result = "ok" /\ via = "chunked")
  /\ cont' \in BOOLEAN
  /\ dpc' = "head" /\ via' = "none" /\ result' = "none"
  /\ Memory0
  /\ UNCHANGED <<NotDl, Server, Disk>>

Return(r, v) == dpc' = "done" /\ result' = r /\ via' = v

\* Client.Head and parseResponse (part_002 lines 288-301, 378-396): the
\* transport fails, or the answer carries a status and the Content-Length
\* header parsed as an integer (0 when the header is missing).
HeadResponses ==
  {[err |-> TRUE, StatusCode |-> 0, ContentLength |-> 0, AcceptRanges |-> FALSE]}
  \cup {[err |-> FALSE, StatusCode |-> sc, ContentLength |-> n, AcceptRanges |-> ar] :
          sc \in {200, 204, 404}, n \in {L, 0, -1}}

\* A deliberately wrong check: the reported size is not looked at.
getFileInfoNoSizeCheck(resp) ==
  ~resp.err /\ resp.StatusCode = 200

\* getFileInfo, lines 359-374: TRUE when the response is returned, FALSE
\* when an error is.
getFileInfo(resp) ==
  IF resp.err THEN FALSE
  ELSE IF resp.StatusCode # 200 THEN FALSE
  ELSE IF resp.ContentLength <= 0 THEN FALSE
  ELSE TRUE

\* Download lines 300-313: getFileInfo, then the strategy decision.
HeadOk ==
  /\ dpc = "head"
  /\ \E resp \in HeadResponses :
       /\ getFileInfo(resp)
       /\ hd' = resp
       /\ dpc' = IF shouldUseChunks(resp.ContentLength) THEN "probe" ELSE "single"
  /\ UNCHANGED <<NotDl, cont, Server, via, result, Tasks, errorCh, appendMode,
                 Disk, opened, loaded, ld, probe, sreq>>

\* Download lines 300-303: getFileInfo fails (transport error, status other
\* than 200, or Content-Length <= 0) and Download returns its error.
HeadFail ==
  /\ dpc = "head"
  /\ \E resp \in HeadResponses :
       /\ ~getFileInfo(resp)
       /\ hd' = resp
  /\ Return("err", "head")
  /\ UNCHANGED <<NotDl, cont, Server, Tasks, errorCh, appendMode, Disk, opened,
                 loaded, ld, probe, sreq>>

\* A deliberately wrong probe handling: every probe error falls back.
ProbeNextAlwaysFallback(kind) ==
  IF kind = "ok" THEN "open" ELSE "single"

\* Download lines 317-328: the 0-0 probe.  status is 206, another status
\* ("range"), or a transport error ("other").
ProbeNext(kind) ==
  IF kind = "ok" THEN "open"
  ELSE IF isRangeNotSupportedError(kind) THEN "single"
  ELSE "open"

\* Client.DownloadRange: the outcomes of a ranged GET.  A server that
\* honours Range answers 206 ("ok"); one that does not answers another
\* status, which DownloadRange turns into its error ("range"); the
\* transport may fail or the answer may not fit the request ("other").
RangeOutcomes == {IF rs THEN "ok" ELSE "range", "other"}

Probe ==
  /\ dpc = "probe"
  /\ \E kind \in RangeOutcomes :
       /\ dpc' = ProbeNext(kind)
       /\ probe' = kind
  /\ UNCHANGED <<NotDl, hd, cont, Server, via, result, Tasks, errorCh, appendMode,
                 Disk, opened, loaded, ld, sreq>>

\* downloadWithChunks lines 409-504 and the launch loop of downloadChunks:
\* partition, open or create <output>.tmp, start one goroutine per chunk.
Launch(cks) ==
  /\ chunks' = cks
  /\ tpc' = [k \in 1..Len(cks) |-> "start"]
  /\ tw' = [k \in 1..Len(cks) |-> [offset |-> 0, written |-> 0, expected |-> 0]]
  /\ terr' = [k \in 1..Len(cks) |-> "none"]
  /\ gets' = [k \in 1..Len(cks) |-> <<>>]
  /\ dpc' = "wait"

OpenFresh ==
  /\ dpc = "open"
  /\ ~(cont /\ tmp.ex /\ st.ex)
  \* not resuming, or no state file: stale files are deleted, the temp file
  \* is created (truncated)
  /\ st' = NoState
  /\ tmp' = EmptyFile
  /\ appendMode' = FALSE /\ opened' = TRUE /\ loaded' = FALSE
  /\ Launch(MakeChunks(L, cs, m))
  /\ UNCHANGED <<NotDl, hd, cont, Server, via, result, sem, mu, sv, errorCh, out, ld, probe, sreq>>

\* The state file exists but does not decode: "加载下载状态失败".
OpenCorrupt ==
  /\ dpc = "open"
  /\ cont /\ tmp.ex /\ st.ex /\ ~st.ok
  /\ Return("err", "chunked")
  /\ UNCHANGED <<NotDl, hd, cont, Server, Tasks, errorCh, appendMode, Disk,
                 opened, loaded, ld, probe, sreq>>

OpenResume ==
  /\ dpc = "open"
  /\ cont /\ tmp.ex /\ st.ex /\ st.ok
  /\ appendMode' = TRUE /\ opened' = TRUE /\ loaded' = TRUE
  /\ ld' = loadDownloadState(st.recs, MakeChunks(L, cs, m))
  /\ Launch(loadDownloadState(st.recs, MakeChunks(L, cs, m)))
  /\ UNCHANGED <<NotDl, hd, cont, Server, via, result, sem, mu, sv, errorCh, Disk, probe, sreq>>

\* downloadChunks lines 595-613 and Download lines 331-341: all goroutines
\* are done; whatever is still buffered in errorCh is drained and the first
\* error received decides.
WaitDone ==
  /\ dpc = "wait"
  /\ \A k \in 1..Len(tpc) : tpc[k] = "done"
  /\ errorCh' = <<>>
  /\ IF errorCh # <<>>
     THEN IF isRangeNotSupportedError(Head(errorCh))
          THEN dpc' = "single" /\ UNCHANGED <<via, result>>
          ELSE Return("err", "chunked")
     ELSE dpc' = "verify" /\ UNCHANGED <<via, result>>
  /\ UNCHANGED <<NotDl, hd, cont, Server, Tasks, appendMode, Disk, opened,
                 loaded, ld, probe, sreq>>

\* downloadWithChunks lines 513-526: size verification, state file deleted.
Verify ==
  /\ dpc = "verify"
  /\ IF Len(tmp.b) # L
     THEN Return("err", "chunked") /\ UNCHANGED st
     ELSE dpc' = "rename" /\ st' = NoState /\ UNCHANGED <<via, result>>
  /\ UNCHANGED <<NotDl, hd, cont, Server, Tasks, errorCh, appendMode, tmp, out, opened, loaded, ld, probe, sreq>>

\* downloadWithChunks lines 529-534.
Rename ==
  /\ dpc = "rename"
  /\ out' = tmp
  /\ tmp' = NoFile
  /\ Return("ok", "chunked")
  /\ UNCHANGED <<NotDl, hd, cont, Server, Tasks, errorCh, appendMode, st,
                 opened, loaded, ld, probe, sreq>>

(***************************************************************************)
(* downloadSingle, lines 700-812.                                          *)
(***************************************************************************)
\* Lines 707-718: the offset of the Range header, or -1 for no header.
ResumeOffset(c, file) ==
  IF c /\ file.ex /\ Len(file.b) > 0 THEN Len(file.b) ELSE -1

\* A deliberately wrong open: a 200 answer is appended like a 206.
SingleOpenAlwaysAppend(status, file) ==
  [ex |-> TRUE, b |-> file.b]

\* Lines 728-761: the file the body is copied to, given the answer's status.
\* 206 appends to the existing bytes, 200 creates (truncates).
SingleOpen(status, file) ==
  IF status = 206 THEN [ex |-> TRUE, b |-> file.b] ELSE EmptyFile

\* The server's answers to the GET of downloadSingle.  A server that
\* honours Range answers 206, or 416 to a range that starts at or after the
\* end of the resource; one that does not sends the whole resource (200).
SingleStatuses(from) ==
  IF from < 0 \/ ~rs THEN {200, 404}
  ELSE IF from < L THEN {206, 404} ELSE {416}

SingleGet ==
  /\ dpc = "single"
  /\ LET from == ResumeOffset(cont, out) IN
     \E status \in SingleStatuses(from) \cup {0} :  \* 0: transport error
       /\ IF status \in {200, 206}
          THEN /\ out' = SingleOpen(status, out)
               /\ sreq' = [rangeFrom |-> from, status |-> status,
                           fileSize |-> IF status = 206 THEN from ELSE 0,
                           pos |-> IF status = 206 THEN from ELSE 0,
                           copied |-> 0]
               /\ dpc' = "scopy" /\ UNCHANGED <<via, result>>
          ELSE /\ Return("err", "single")
               /\ sreq' = [NoReq EXCEPT !.rangeFrom = from, !.status = status]
               /\ UNCHANGED out
  /\ UNCHANGED <<NotDl, hd, cont, Server, Tasks, errorCh, appendMode, tmp, st,
                 opened, loaded, ld, probe>>

\* io.Copy(file, body): one byte of the body is written at the end of the file.
SingleCopy ==
  /\ dpc = "scopy"
  /\ sreq.pos < L
  /\ out' = [out EXCEPT !.b = Append(out.b, Data(L)[sreq.pos + 1])]
  /\ sreq' = [sreq EXCEPT !.pos = sreq.pos + 1, !.copied = sreq.copied + 1]
  /\ UNCHANGED <<NotDl, hd, cont, Server, dpc, via, result, Tasks, errorCh,
                 appendMode, tmp, st, opened, loaded, ld, probe>>

\* The body breaks off: io.Copy returns an error.
SingleCopyFail ==
  /\ dpc = "scopy"
  /\ sreq.pos < L
  /\ Return("err", "single")
  /\ UNCHANGED <<NotDl, hd, cont, Server, Tasks, errorCh, appendMode, Disk, opened,
                 loaded, ld, probe, sreq>>

\* End of body; copied equals the answer's Content-Length.
SingleDone ==
  /\ dpc = "scopy"
  /\ sreq.pos = L
  /\ Return("ok", "single")
  /\ UNCHANGED <<NotDl, hd, cont, Server, Tasks, errorCh, appendMode, Disk,
                 opened, loaded, ld, probe, sreq>>

(***************************************************************************)
(* downloadChunks: the goroutine of chunk k (lines 553-591), downloadChunk *)
(* (lines 617-665) and writeAtWriter.Write (lines 675-683).                *)
(***************************************************************************)
NTasks == Len(tpc)
Main == <<cont, Server, dpc, via, result, appendMode, opened, loaded, ld, probe, sreq, hd>>

\* Line 557: semaphore <- struct{}{} on a channel of capacity MaxThreads.
CanAcquire(s) == s < m

\* A deliberately wrong failure path: the slot is not given back.
SemAfterFailLeak(s) == s

\* Line 558, deferred: <-semaphore, on the failure return of line 575.
SemAfterFail(s) == s - 1

TaskAcquire(k) ==
  /\ tpc[k] = "start"
  /\ CanAcquire(sem)
  /\ sem' = sem + 1
  /\ tpc' = [tpc EXCEPT ![k] = "acq"]
  /\ UNCHANGED <<NotDl, Main, chunks, tw, terr, mu, sv, gets, errorCh, Disk>>

\* Lines 561-564: the start message is printed under mu, so a goroutine
\* does not get to downloadChunk while another one saves the state.
TaskAnnounce(k) ==
  /\ tpc[k] = "acq"
  /\ mu = 0
  /\ tpc' = [tpc EXCEPT ![k] = "dl"]
  /\ UNCHANGED <<NotDl, Main, chunks, tw, terr, sem, mu, sv, gets, errorCh, Disk>>

\* A deliberately wrong resume offset: the bytes already there are refetched.
RequestStartFromScratch(c) == c.Start

\* Line 624: the first byte requested for a chunk.
RequestStart(c) == c.Start + c.Completed

\* Lines 619-631: no request for a chunk that is Completed or already full.
TaskSkip(k) ==
  /\ tpc[k] = "dl"
  /\ \/ chunks[k].Status = "Completed" /\ UNCHANGED chunks
     \/ /\ chunks[k].Status # "Completed"
        /\ RequestStart(chunks[k]) > chunks[k].End
        /\ chunks' = [chunks EXCEPT ![k].Status = "Completed"]
  /\ tpc' = [tpc EXCEPT ![k] = "ok"]
  /\ UNCHANGED <<NotDl, Main, tw, terr, sem, mu, sv, gets, errorCh, Disk>>

\* Lines 634-651: the ranged GET.  kind is "ok" (206 with the expected
\* Content-Length), "range" (a status other than 206) or "other" (transport
\* error, or a Content-Length that differs from the expected size).
TaskGet(k) ==
  /\ tpc[k] = "dl"
  /\ chunks[k].Status # "Completed"
  /\ RequestStart(chunks[k]) <= chunks[k].End
  /\ gets' = [gets EXCEPT ![k] = Append(@, [from |-> RequestStart(chunks[k]),
                                             to |-> chunks[k].End])]
  /\ \E kind \in RangeOutcomes :
       /\ IF kind = "ok"
          THEN /\ tw' = [tw EXCEPT ![k] =
                    [offset |-> RequestStart(chunks[k]), written |-> 0,
                     expected |-> chunks[k].End - RequestStart(chunks[k]) + 1]]
               /\ tpc' = [tpc EXCEPT ![k] = "copy"]
               /\ UNCHANGED terr
          ELSE /\ terr' = [terr EXCEPT ![k] = kind]
               /\ tpc' = [tpc EXCEPT ![k] = "fail"]
               /\ UNCHANGED tw
  /\ UNCHANGED <<NotDl, Main, chunks, sem, mu, sv, errorCh, Disk>>

\* A deliberately wrong count: the bytes are counted by two wrapped writers.
CompletedCountedTwice(c, n) == c.Completed + 2 * n

\* Line 680: w.chunk.Completed += int64(n).
CompletedAfterWrite(c, n) == c.Completed + n

\* One Write of io.Copy: the next body byte goes to w.offset.  The mutex of
\* downloadChunks is not taken.
TaskWrite(k) ==
  /\ tpc[k] = "copy"
  /\ tw[k].written < tw[k].expected
  /\ LET r == WriteAt(tmp, tw[k].offset, Data(L)[tw[k].offset + 1], appendMode)
     IN  IF r.n > 0
         THEN /\ tmp' = [tmp EXCEPT !.b = r.b]
              /\ tw' = [tw EXCEPT ![k].offset = @ + r.n, ![k].written = @ + r.n]
              /\ chunks' = [chunks EXCEPT ![k].Completed =
                                            CompletedAfterWrite(chunks[k], r.n)]
              /\ UNCHANGED <<tpc, terr>>
         ELSE /\ terr' = [terr EXCEPT ![k] = "write"]
              /\ tpc' = [tpc EXCEPT ![k] = "fail"]
              /\ UNCHANGED <<tmp, tw, chunks>>
  /\ UNCHANGED <<NotDl, Main, sem, mu, sv, gets, errorCh, st, out>>

\* The body breaks off before the expected size was read.
TaskBodyFail(k) ==
  /\ tpc[k] = "copy"
  /\ tw[k].written < tw[k].expected
  /\ terr' = [terr EXCEPT ![k] = "other"]
  /\ tpc' = [tpc EXCEPT ![k] = "fail"]
  /\ UNCHANGED <<NotDl, Main, chunks, tw, sem, mu, sv, gets, errorCh, Disk>>

\* Lines 658-664: the written size is verified, chunk.Status = Completed.
TaskCopyDone(k) ==
  /\ tpc[k] = "copy"
  /\ tw[k].written = tw[k].expected
  /\ chunks' = [chunks EXCEPT ![k].Status = "Completed"]
  /\ tpc' = [tpc EXCEPT ![k] = "ok"]
  /\ UNCHANGED <<NotDl, Main, tw, terr, sem, mu, sv, gets, errorCh, Disk>>

\* Lines 568-570: the error is sent to cd.errorCh, Status = Failed.
TaskFail(k) ==
  /\ tpc[k] = "fail"
  /\ Len(errorCh) < ErrorChCap
  /\ errorCh' = Append(errorCh, terr[k])
  /\ chunks' = [chunks EXCEPT ![k].Status = "Failed"]
  /\ tpc' = [tpc EXCEPT ![k] = "failed"]
  /\ UNCHANGED <<NotDl, Main, tw, terr, sem, mu, sv, gets, Disk>>

\* Lines 572-575 and the deferred calls: the failure is printed under mu,
\* the slot is released.
TaskFailExit(k) ==
  /\ tpc[k] = "failed"
  /\ mu = 0
  /\ sem' = SemAfterFail(sem)
  /\ tpc' = [tpc EXCEPT ![k] = "done"]
  /\ UNCHANGED <<NotDl, Main, chunks, tw, terr, mu, sv, gets, errorCh, Disk>>

\* Lines 579-586: mu.Lock, chunk.Status = Completed, saveDownloadState starts.
TaskLock(k) ==
  /\ tpc[k] = "ok"
  /\ mu = 0
  /\ mu' = k
  /\ chunks' = [chunks EXCEPT ![k].Status = "Completed"]
  /\ sv' = [k |-> 1, ph |-> "c", cur |-> 0, recs |-> <<>>]
  /\ tpc' = [tpc EXCEPT ![k] = "save"]
  /\ UNCHANGED <<NotDl, Main, tw, terr, sem, gets, errorCh, Disk>>

\* saveDownloadState lines 926-935: the loop reads one chunk's Completed and
\* then its Status; the chunk's own goroutine may write them in between.
SaveRead(k) ==
  /\ tpc[k] = "save"
  /\ sv.k <= Len(chunks)
  /\ IF sv.ph = "c"
     THEN sv' = [sv EXCEPT !.cur = chunks[sv.k].Completed, !.ph = "s"]
     ELSE sv' = [sv EXCEPT
                   !.recs = Append(@, [ChunkState(chunks[sv.k])
                                         EXCEPT !.Completed = sv.cur]),
                   !.k = @ + 1, !.ph = "c"]
  /\ UNCHANGED <<NotDl, Main, chunks, tpc, tw, terr, sem, mu, gets, errorCh, Disk>>

\* os.WriteFile opens the state file with O_TRUNC: until the data is
\* written the file is empty and does not decode.
SaveTrunc(k) ==
  /\ tpc[k] = "save"
  /\ sv.k > Len(chunks) /\ sv.ph = "c"
  /\ st' = [ex |-> TRUE, ok |-> FALSE, recs |-> <<>>]
  /\ sv' = [sv EXCEPT !.ph = "w"]
  /\ UNCHANGED <<NotDl, Main, chunks, tpc, tw, terr, sem, mu, gets, errorCh, tmp, out>>

\* os.WriteFile writes the data; lines 590-591: mu.Unlock, slot released.
SaveWrite(k) ==
  /\ tpc[k] = "save"
  /\ sv.ph = "w"
  /\ st' = [ex |-> TRUE, ok |-> TRUE, recs |-> sv.recs]
  /\ sv' = <<>> /\ mu' = 0
  /\ sem' = sem - 1
  /\ tpc' = [tpc EXCEPT ![k] = "done"]
  /\ UNCHANGED <<NotDl, Main, chunks, tw, terr, gets, errorCh, tmp, out>>

\* os.WriteFile fails to open the state file: a warning, nothing else.
SaveFail(k) ==
  /\ tpc[k] = "save"
  /\ sv.k > Len(chunks) /\ sv.ph = "c"
  /\ sv' = <<>> /\ mu' = 0
  /\ sem' = sem - 1
  /\ tpc' = [tpc EXCEPT ![k] = "done"]
  /\ UNCHANGED <<NotDl, Main, chunks, tw, terr, gets, errorCh, Disk>>

\* CLI.monitorProgress lines 343-347: the monitor started by downloadFile
\* receives from the same error channel while Download runs.
MonitorRecvError ==
  /\ dpc \notin {"idle", "done"}
  /\ errorCh # <<>>
  /\ errorCh' = Tail(errorCh)
  /\ UNCHANGED <<NotDl, Main, Tasks, Disk>>

\* The process is killed: memory is lost, the disk stays as it is.
Kill ==
  /\ dpc \notin {"idle", "done"}
  /\ dpc' = "done" /\ result' = "killed" /\ via' = "none"
  /\ Memory0
  /\ UNCHANGED <<NotDl, cont, Server, Disk>>

DlNext ==
  \/ StartRun \/ HeadOk \/ HeadFail \/ Probe
  \/ OpenFresh \/ OpenCorrupt \/ OpenResume
  \/ WaitDone \/ Verify \/ Rename
  \/ SingleGet \/ SingleCopy \/ SingleCopyFail \/ SingleDone
  \/ \E k \in 1..NTasks : TaskAcquire(k)
  \/ \E k \in 1..NTasks : TaskAnnounce(k)
  \/ \E k \in 1..NTasks : TaskSkip(k)
  \/ \E k \in 1..NTasks : TaskGet(k)
  \/ \E k \in 1..NTasks : TaskWrite(k)
  \/ \E k \in 1..NTasks : TaskBodyFail(k)
  \/ \E k \in 1..NTasks : TaskCopyDone(k)
  \/ \E k \in 1..NTasks : TaskFail(k)
  \/ \E k \in 1..NTasks : TaskFailExit(k)
  \/ \E k \in 1..NTasks : TaskLock(k)
  \/ \E k \in 1..NTasks : SaveRead(k)
  \/ \E k \in 1..NTasks : SaveTrunc(k)
  \/ \E k \in 1..NTasks : SaveWrite(k)
  \/ \E k \in 1..NTasks : SaveFail(k)
  \/ MonitorRecvError
  \/ Kill

(***************************************************************************)
(* utils.CalculateETA and utils.SafeFileName.                              *)
(***************************************************************************)
MaxTotal == 3   \* largest total and downloaded byte count tried
MaxSpeed == 2   \* largest speed tried, in bytes per second

Abs(x) == IF x < 0 THEN -x ELSE x
Sign(x) == IF x < 0 THEN -1 ELSE IF x = 0 THEN 0 ELSE 1

\* A time.Duration, a count of nanoseconds, written as whole seconds and
\* the nanoseconds below one second; both carry the sign of the duration.
Duration(sec, nsec) == [sec |-> sec, nsec |-> nsec]

\* The digits of a / d below the unit, to nine places, by long division
\* (a < d): what float64(a) / float64(d) * 1e9 truncates to.
NanoPart(a, d) ==
  LET ms == (a * 1000) \div d
      r1 == (a * 1000) % d
      us == (r1 * 1000) \div d
      r2 == (r1 * 1000) % d
      ns == (r2 * 1000) \div d
  IN  ms * 1000000 + us * 1000 + ns

\* CalculateETA, lines 132-140.  The conversion of the float64 to a
\* Duration truncates toward zero.
CalculateETA(total, downloaded, speed) ==
  IF speed <= 0 THEN Duration(0, 0)
  ELSE LET remaining == total - downloaded
           a == Abs(remaining)
       IN  Duration(Sign(remaining) * (a \div speed),
                    Sign(remaining) * NanoPart(a % speed, speed))

EtaInit ==
  /\ eT \in 0..MaxTotal /\ eD \in 0..MaxTotal /\ eS \in -1..MaxSpeed
  /\ eta = <<>>

EtaIdle == eT = 0 /\ eD = 0 /\ eS = 0 /\ eta = <<>>

ApplyCalculateETA ==
  /\ eta = <<>>
  /\ eta' = <<CalculateETA(eT, eD, eS)>>
  /\ UNCHANGED <<NotEta, eT, eD, eS>>

EtaNext == ApplyCalculateETA

NameMax == 255  \* the length SafeFileName cuts at
MaxTail == 2    \* number of bytes of a name that range over NameBytes
MaxSlack == 2   \* how far the filler of a long name is from NameMax

\* The bytes a name is made of: the nine characters of the character
\* class, two harmless ones, and the two bytes of a UTF-8 encoded e-acute.
NameBytes == {"<", ">", ":", "\"", "/", "\\", "|", "?", "*", "a", "_", "C3", "A9"}

Tails == UNION {[1..n -> NameBytes] : n \in 0..MaxTail}

\* The names tried: short ones, and ones around NameMax bytes that end in
\* any of the tails.
Names ==
  {[i \in 1..(k + Len(t)) |-> IF i <= k THEN "a" ELSE t[i - k]] :
     k \in {0} \cup ((NameMax - MaxSlack)..(NameMax + MaxSlack)), t \in Tails}

\* A deliberately wrong character class: the asterisk is left out.
IllegalCharsNoStar == {"<", ">", ":", "\"", "/", "\\", "|", "?"}

\* Line 193: the character class [<>:"/\\|?*].
IllegalChars == {"<", ">", ":", "\"", "/", "\\", "|", "?", "*"}

\* re.ReplaceAllString(filename, "_"): every match, one byte of the class,
\* is replaced.
ReplaceAllString(str) ==
  [i \in 1..Len(str) |-> IF str[i] \in IllegalChars THEN "_" ELSE str[i]]

\* SafeFileName, lines 191-202.
SafeFileName(filename) ==
  LET replaced == ReplaceAllString(filename)
  IN  IF Len(replaced) > NameMax THEN SubSeq(replaced, 1, NameMax)
      ELSE replaced

SfInit == fIn \in Names /\ fOut = <<>> /\ fCalls = 0

SfIdle == fIn = <<>> /\ fOut = <<>> /\ fCalls = 0

\* SafeFileName is applied to the name, and then to its own result.
ApplySafeFileName ==
  /\ fCalls < 2
  /\ fOut' = SafeFileName(IF fCalls = 0 THEN fIn ELSE fOut)
  /\ fCalls' = fCalls + 1
  /\ UNCHANGED <<NotSf, fIn>>

SfNext == ApplySafeFileName

(***************************************************************************)
(* Strings of the crawler and the link converter are sequences of symbols: *)
(* the punctuation of URLs and paths one character each, "S" for the       *)
(* scheme name http, "M" for mailto, "h" for the host name, "O" for the    *)
(* name of the output directory, "i" for the name index.html, and the      *)
(* other symbols for file and directory names.                             *)
(***************************************************************************)
\* strings.Index / bytes.Index: offset of the first occurrence, or -1.
Index(str, sub) ==
  LET hits == {i \in 0..(Len(str) - Len(sub)) :
                 \A j \in 1..Len(sub) : str[i + j] = sub[j]}
  IN  IF hits = {} THEN -1 ELSE CHOOSE i \in hits : \A k \in hits : i <= k

\* str[from:] and str[:to] of Go, offsets counted from 0.
From(str, from) == SubSeq(str, from + 1, Len(str))
Upto(str, to) == SubSeq(str, 1, to)

\* The offset at which the query or the fragment of a reference starts.
PathEnd(str) ==
  LET q == Index(str, <<"?">>)
      f == Index(str, <<"#">>)
      cut == {x \in {q, f} : x >= 0}
  IN  IF cut = {} THEN Len(str) ELSE CHOOSE x \in cut : \A y \in cut : x <= y

\* url.Parse on an absolute URL scheme://host/path?query#fragment or on
\* an opaque one (mailto:x): the fields the program reads.
ParseURL(urlStr) ==
  LET c == Index(urlStr, <<":">>)
      rest == From(urlStr, c + 1)
  IN  IF c >= 0 /\ HasPrefix(rest, <<"/", "/">>)
      THEN LET auth == From(rest, 2)
               s == Index(Upto(auth, PathEnd(auth)), <<"/">>)
               hostEnd == IF s >= 0 THEN s ELSE PathEnd(auth)
           IN  [Scheme |-> Upto(urlStr, c),
                Host |-> Upto(auth, hostEnd),
                Path |-> SubSeq(auth, hostEnd + 1, PathEnd(auth))]
      ELSE [Scheme |-> IF c >= 0 THEN Upto(urlStr, c) ELSE <<>>,
            Host |-> <<>>,
            Path |-> IF c >= 0 THEN <<>> ELSE Upto(urlStr, PathEnd(urlStr))]

\* The elements of a slash-separated path, empty ones included.
RECURSIVE Split(_)
Split(p) ==
  LET s == Index(p, <<"/">>)
  IN  IF s < 0 THEN <<p>> ELSE <<Upto(p, s)>> \o Split(From(p, s + 1))

\* filepath.Clean on the elements of a path: empty elements and "." are
\* dropped, ".." removes the element before it (or stays at the front of a
\* relative path, and is dropped at the root).
RECURSIVE CleanElems(_, _, _)
CleanElems(elems, acc, rooted) ==
  IF elems = <<>> THEN acc
  ELSE LET e == Head(elems) IN
    IF e = <<>> \/ e = <<".">> THEN CleanElems(Tail(elems), acc, rooted)
    ELSE IF e = <<".", ".">>
    THEN IF acc # <<>> /\ acc[Len(acc)] # <<".", ".">>
         THEN CleanElems(Tail(elems), Upto(acc, Len(acc) - 1), rooted)
         ELSE IF rooted THEN CleanElems(Tail(elems), acc, rooted)
         ELSE CleanElems(Tail(elems), Append(acc, e), rooted)
    ELSE CleanElems(Tail(elems), Append(acc, e), rooted)

\* A cleaned path: whether it starts at the root, and its elements.
Clean(p) ==
  LET rooted == p # <<>> /\ p[1] = "/"
  IN  [rooted |-> rooted, elems |-> CleanElems(Split(p), <<>>, rooted)]

RECURSIVE JoinElems(_)
JoinElems(elems) ==
  IF elems = <<>> THEN <<>>
  ELSE IF Len(elems) = 1 THEN elems[1]
  ELSE elems[1] \o <<"/">> \o JoinElems(Tail(elems))

\* The text of a cleaned path.
PathString(c) ==
  IF c.rooted THEN <<"/">> \o JoinElems(c.elems)
  ELSE IF c.elems = <<>> THEN <<".">>
  ELSE JoinElems(c.elems)

\* filepath.Join(a, b) with a not empty: Clean(a + "/" + b).
Join(a, b) == PathString(Clean(a \o <<"/">> \o b))

\* filepath.Dir of a cleaned path.
Dir(p) ==
  LET c == Clean(p)
  IN  IF c.elems = <<>> THEN PathString(c)
      ELSE PathString([c EXCEPT !.elems = Upto(c.elems, Len(c.elems) - 1)])

\* filepath.Rel(base, target) for two paths that are both relative or both
\* rooted: the error case is the empty sequence.
Rel(basePath, target) ==
  LET b == Clean(basePath)
      t == Clean(target)
      same == {n \in 0..Min(Len(b.elems), Len(t.elems)) :
                 \A i \in 1..n : b.elems[i] = t.elems[i]}
      n == CHOOSE x \in same : \A y \in same : y <= x
  IN  IF b.rooted # t.rooted THEN <<>>
      ELSE IF \E i \in (n + 1)..Len(b.elems) : b.elems[i] = <<".", ".">> THEN <<>>
      ELSE PathString([rooted |-> FALSE,
                       elems |-> [i \in 1..(Len(b.elems) - n) |-> <<".", ".">>]
                                 \o SubSeq(t.elems, n + 1, Len(t.elems))])

\* The value of a one-element set: each step of a function body is a value
\* computed once, as an assignment of the code is.
Only(S) == CHOOSE x \in S : TRUE

\* if idx := strings.Index(s, sub); idx != -1 { s = s[:idx] }
Before(str, sub) ==
  IF Index(str, sub) # -1 THEN Upto(str, Index(str, sub)) ELSE str

\* RecursiveDownloader.getOutputPath, lines 579-607.  u.Path holds neither
\* query nor fragment, and filepath.Join returns a cleaned path, which never
\* ends in a separator: the test of line 602 does not fire.
getOutputPath(urlStr, outputDir) ==
  Only({ IF localPath # <<>> /\ localPath[Len(localPath)] = "/"
         THEN Join(localPath, <<"i">>)
         ELSE localPath :
    localPath \in { Join(outputDir, p3) :
      p3 \in { Before(p2, <<"#">>) :
        p2 \in { Before(p1, <<"?">>) :
          p1 \in { IF p0 = <<>> \/ p0 = <<"/">> THEN <<"/", "i">> ELSE p0 :
            p0 \in { ParseURL(urlStr).Path } } } } } })

(***************************************************************************)
(* RecursiveDownloader: Download, processJob, shouldRecurse, downloadFile, *)
(* parseAndQueueURLs, queueURL, with the queue manager's Add, Pop,         *)
(* MarkVisited and IsAllowedByRobots.  One goroutine runs the loop.        *)
(***************************************************************************)
MaxLevel == 2   \* largest configured recursive_level
MaxLinks == 2   \* most URLs a parsed page yields

OutputDir == <<"O">>
URLOf(path) == <<"S", ":", "/", "/", "h">> \o path
MailURL == <<"M", ":", "x">>

\* The paths of the site, and the URLs a page may hold.
CrawlPaths == { <<"/">>, <<"/", "a">>, <<"/", "a", "/", "a">>, <<"/", "+", "a">> }
StartURLs == { URLOf(<<"/">>), URLOf(<<"/", "a">>) }
PageURLs == {URLOf(p) : p \in CrawlPaths} \cup {MailURL}
LinkSeqs == UNION {[1..n -> PageURLs] : n \in 0..MaxLinks}

\* getUserAgent: the configured user agent of the crawl.
CrawlAgent == <<"b", "o">>

\* What Parser.Parse leaves for a robots.txt of one group: a User-agent
\* line, a Disallow line and at most one Allow line.
RuleSet(agent, dis, allows) ==
  [rules |-> <<[UserAgent |-> agent, Disallow |-> <<dis>>, Allow |-> allows,
                lines |-> <<dis>>]>>,
   defaults |-> IF agent = <<"*">> THEN 1 ELSE 0]

CrawlRuleSets ==
  {RuleSet(agent, dis, allows) :
     agent \in {<<"*">>, <<"b">>, <<"x">>},
     dis \in {<<"/", "a">>, <<"/", "*", "a">>},
     allows \in {<<>>, << <<"/", "a", "/">> >>}}

\* Manager.IsAllowedByRobots, lines 126-153; host is hostMap[host], <<>>
\* when no parser is cached.
IsAllowedByRobots(host, urlStr) ==
  IF host = <<>> THEN TRUE
  ELSE LET rules == host[1].rules
           path == ParseURL(urlStr).Path
       IN  ~\E r \in 1..Len(rules) :
              \E d \in 1..Len(rules[r].Disallow) :
                 HasPrefix(path, rules[r].Disallow[d])

\* A deliberately wrong gate: pages at the level of the cap are parsed too.
shouldRecurseOffByOne(cfg, job) ==
  IF ~cfg.Recursive THEN FALSE
  ELSE IF cfg.RecursiveLevel > 0 /\ job.Level > cfg.RecursiveLevel THEN FALSE
  ELSE TRUE

\* shouldRecurse, lines 343-359.
shouldRecurse(cfg, job) ==
  IF ~cfg.Recursive THEN FALSE
  ELSE IF cfg.RecursiveLevel > 0 /\ job.Level >= cfg.RecursiveLevel THEN FALSE
  ELSE IF job.Flags = "Requisite" /\ cfg.PageRequisites THEN TRUE
  ELSE TRUE

\* A queueURL that looks only at the jobs now waiting, not at the index or
\* the visited set, and keeps the parent's level.
queueURLWaitingOnly(q, vis, parentJob, urlStr) ==
  IF ~HasPrefix(urlStr, <<"S", ":", "/", "/">>) THEN q
  ELSE IF \E i \in 1..Len(q.jobs) : q.jobs[i].URL = urlStr THEN q
  ELSE [jobs |-> Append(q.jobs, [URL |-> urlStr, Level |-> parentJob.Level,
                                 Flags |-> "Requisite"]),
        index |-> q.index \cup {urlStr}]

\* A queueURL that queues every HTTP link it is given.
queueURLUnfiltered(q, vis, parentJob, urlStr) ==
  IF ~HasPrefix(urlStr, <<"S", ":", "/", "/">>) THEN q
  ELSE [jobs |-> Append(q.jobs, [URL |-> urlStr, Level |-> parentJob.Level + 1,
                                 Flags |-> "Requisite"]),
        index |-> q.index \cup {urlStr}]

\* queueURL, lines 493-532, with Manager.Add and URLQueue.Add: q is the
\* queue [jobs, index].  The blacklist is empty throughout a crawl.  The
\* links a page yields come from href and src attributes, so that lines
\* 509-512 flag every one of them as a requisite.
queueURL(q, vis, parentJob, urlStr) ==
  IF ~HasPrefix(urlStr, <<"S", ":", "/", "/">>) THEN q
  ELSE IF urlStr \in vis \/ urlStr \in q.index THEN q
  ELSE [jobs |-> Append(q.jobs, [URL |-> urlStr, Level |-> parentJob.Level + 1,
                                 Flags |-> "Requisite"]),
        index |-> q.index \cup {urlStr}]

\* parseAndQueueURLs lines 483-487: the URLs of the page, in order.
RECURSIVE QueueAll(_, _, _, _)
QueueAll(q, vis, parentJob, links) ==
  IF links = <<>> THEN q
  ELSE QueueAll(queueURL(q, vis, parentJob, Head(links)), vis, parentJob, Tail(links))

\* The directories os.MkdirAll(filepath.Dir(p)) walks through.
RECURSIVE DirsOf(_)
DirsOf(p) ==
  IF Dir(p) = <<".">> \/ Dir(p) = p THEN {}
  ELSE {Dir(p)} \cup DirsOf(Dir(p))

\* The values hostMap[host] takes, and per URL what the program computes
\* from the URL alone.
CrawlHosts == {<<>>} \cup {<<parsed>> : parsed \in CrawlRuleSets}
LocalPath == [u \in PageURLs |-> getOutputPath(u, OutputDir)]
LocalDirs == [u \in PageURLs |-> DirsOf(LocalPath[u])]
RobotsVerdict == [h \in CrawlHosts |-> [u \in PageURLs |-> IsAllowedByRobots(h, u)]]

\* What the server does with a job: the HEAD fails, the GET fails, or the
\* resource arrives as a binary or as an HTML body that holds the links,
\* or as an HTML body with a META robots tag that forbids following.
Outcomes ==
  {[kind |-> k, links |-> <<>>, follow |-> TRUE] : k \in {"headfail", "getfail", "binary"}}
  \cup {[kind |-> "html", links |-> l, follow |-> TRUE] : l \in LinkSeqs}
  \cup {[kind |-> "html", links |-> <<URLOf(<<"/", "a">>)>>, follow |-> FALSE]}

CrInit ==
  /\ crCfg \in [Recursive : BOOLEAN, RecursiveLevel : 0..MaxLevel, RobotsTxt : BOOLEAN,
               PageRequisites : BOOLEAN, Continue : BOOLEAN]
  /\ crHost = <<>> /\ crJobs = <<>> /\ crIndex = {} /\ crVisited = {}
  /\ crFiles = {} /\ crDirs = {} /\ crLog = {} /\ crLinks = {} /\ crPc = "new"

CrIdle ==
  /\ crCfg = [Recursive |-> FALSE, RecursiveLevel |-> 0, RobotsTxt |-> FALSE,
              PageRequisites |-> FALSE, Continue |-> FALSE]
  /\ crHost = <<>> /\ crJobs = <<>> /\ crIndex = {} /\ crVisited = {}
  /\ crFiles = {} /\ crDirs = {} /\ crLog = {} /\ crLinks = {} /\ crPc = "new"

\* Download lines 246-277: the output directory, the initial job, and
\* downloadRobotsTxt, which caches the parsed rules or fails.
CrStart(startURL) ==
  /\ crPc = "new"
  /\ crDirs' = {OutputDir}
  /\ crJobs' = <<[URL |-> startURL, Level |-> 0, Flags |-> "None"]>>
  /\ crIndex' = {startURL}
  /\ IF crCfg.RobotsTxt
     THEN \E h \in CrawlHosts : crHost' = h
     ELSE crHost' = <<>>
  /\ crPc' = "loop"
  /\ UNCHANGED <<NotCr, crCfg, crVisited, crFiles, crLog, crLinks>>

\* What the crawler does with a job, kept for the record: it marks the URL
\* visited, skips it, sends a HEAD or a GET, writes the file, parses the page;
\* fail stands for processJob returning an error (lines 325-327).
Logged(job, ops) == {[URL |-> job.URL, Level |-> job.Level, op |-> o] : o \in ops}

\* One turn of the loop of Download, lines 280-296: Pop and processJob.
ProcessJob(o) ==
  /\ crPc = "loop" /\ crJobs # <<>>
  /\ LET job == Head(crJobs)
         vis == crVisited \cup {job.URL}
         outputPath == LocalPath[job.URL]
         mkFail == \E d \in LocalDirs[job.URL] : d \in crFiles
         written == o.kind \in {"binary", "html"} /\ outputPath \notin crDirs
                      /\ ~mkFail
         q0 == [jobs |-> Tail(crJobs), index |-> crIndex]
         parsed == written /\ o.kind = "html" /\ shouldRecurse(crCfg, job)
         q1 == IF parsed /\ ~(crCfg.RobotsTxt /\ ~o.follow)
               THEN QueueAll(q0, vis, job, o.links) ELSE q0
     IN  /\ crVisited' = vis
         /\ IF ~RobotsVerdict[crHost][job.URL]
            THEN /\ crLog' = crLog \cup Logged(job, {"visit", "skip"})
                 /\ crJobs' = q0.jobs
                 /\ UNCHANGED <<crIndex, crFiles, crDirs, crLinks>>
            ELSE /\ crDirs' = IF mkFail THEN crDirs ELSE crDirs \cup LocalDirs[job.URL]
                 /\ crLog' = crLog \cup Logged(job,
                       {"visit"}
                       \cup (IF mkFail THEN {}
                             ELSE IF o.kind = "headfail" THEN {"HEAD"}
                             ELSE IF written THEN {"HEAD", "GET", "write"}
                             ELSE {"HEAD", "GET"})
                       \cup (IF parsed THEN {"parse"} ELSE {})
                       \cup (IF written THEN {} ELSE {"fail"}))
                 /\ crLinks' = IF written /\ o.kind = "html"
                               THEN crLinks \cup
                                    {u \in Range(o.links) :
                                       HasPrefix(u, <<"S", ":", "/", "/">>)}
                               ELSE crLinks
                 /\ crFiles' = IF written THEN crFiles \cup {outputPath} ELSE crFiles
                 /\ crJobs' = q1.jobs
                 /\ crIndex' = q1.index
  /\ UNCHANGED <<NotCr, crCfg, crHost, crPc>>

\* The queue is empty: Download returns.
CrFinish ==
  /\ crPc = "loop" /\ crJobs = <<>>
  /\ crPc' = "done"
  /\ UNCHANGED <<NotCr, crCfg, crHost, crJobs, crIndex, crVisited, crFiles, crDirs, crLog, crLinks>>

\* Lines 282-283: the context is cancelled, Download returns its error.
CrCancel ==
  /\ crPc = "loop" /\ crJobs # <<>>
  /\ crPc' = "cancelled"
  /\ UNCHANGED <<NotCr, crCfg, crHost, crJobs, crIndex, crVisited, crFiles, crDirs, crLog, crLinks>>

CrNext ==
  \/ \E u \in StartURLs : CrStart(u)
  \/ \E o \in Outcomes : ProcessJob(o)
  \/ CrFinish
  \/ CrCancel

(***************************************************************************)
(* converter.Converter as the crawler uses it: Download sets its base      *)
(* directory to the output directory and its backup flag to ConvertLinks,  *)
(* parseAndQueueURLs registers a saved HTML page with the URLs the parser  *)
(* found in it, and ConvertAll rewrites the page.  A page is a sequence of *)
(* symbols in which "<" opens and ">" closes the value of a href or src    *)
(* attribute.                                                              *)
(***************************************************************************)
MaxHrefs == 2   \* most href/src attributes of a page

CvDirs == { <<".">>, OutputDir }
CvPages == { URLOf(<<"/">>), URLOf(<<"/", "b", "/", "c">>) }

\* The attribute values a page may hold: absolute URLs of the site, with
\* and without a path, and a reference that starts at the root.
CvHrefs ==
  { URLOf(<<"/">>), URLOf(<<"/", "a">>), URLOf(<<"/", "b", "/", "c">>),
    URLOf(<<>>), <<"/", "a">> }
CvHrefSeqs == UNION {[1..n -> CvHrefs] : n \in 0..MaxHrefs}

RECURSIVE Doc(_)
Doc(hrefs) ==
  IF hrefs = <<>> THEN <<>>
  ELSE <<"<">> \o Head(hrefs) \o <<">">> \o Doc(Tail(hrefs))

\* The values of the href/src attributes of a page, in document order.
RECURSIVE AttrValues(_)
AttrValues(data) ==
  IF Index(data, <<"<">>) < 0 THEN <<>>
  ELSE Only({ IF Index(rest, <<">">>) < 0 THEN <<>>
              ELSE <<Upto(rest, Index(rest, <<">">>))>>
                   \o AttrValues(From(rest, Index(rest, <<">">>) + 1)) :
                rest \in { From(data, Index(data, <<"<">>) + 1) } })

\* normalizeURL of the HTML parser: an absolute URL stays as it is, a
\* reference that starts with "/" takes scheme and host of the base URL.
normalizeURL(urlStr, baseURL) ==
  IF ParseURL(urlStr).Scheme # <<>> THEN urlStr
  ELSE ParseURL(baseURL).Scheme \o <<":", "/", "/">> \o ParseURL(baseURL).Host
         \o urlStr

\* html.Parser.Parse: result.URLs, the URL field of each entry.
HtmlParse(data, baseURL) ==
  LET vals == SelectSeq(AttrValues(data), LAMBDA v : v # <<>> /\ v # <<"#">>)
  IN  [i \in 1..Len(vals) |-> normalizeURL(vals[i], baseURL)]

\* Converter.getURLPath, lines 131-156.
getURLPath(urlStr, baseDir) ==
  Only({ IF baseDir # <<>> THEN Join(baseDir, s4) ELSE s4 :
    s4 \in { Before(s3, <<"#">>) :
      s3 \in { Before(s2, <<"?">>) :
        s2 \in { IF Index(s1, <<"/">>) # -1
                 THEN From(s1, Index(s1, <<"/">>)) ELSE s1 :
          s1 \in { IF Index(urlStr, <<":", "/", "/">>) # -1
                   THEN From(urlStr, Index(urlStr, <<":", "/", "/">>) + 3)
                   ELSE urlStr } } } } })

\* Converter.getRelativePath, lines 108-128.
getRelativePath(fromFile, targetURL, baseDir) ==
  Only({ IF targetPath = <<>> THEN targetURL
         ELSE IF Rel(Dir(fromFile), targetPath) = <<>> THEN targetURL
         ELSE Rel(Dir(fromFile), targetPath) :
    targetPath \in { getURLPath(targetURL, baseDir) } })

\* The loop of convertLinks, lines 82-99: lastPos and buf after the URLs.
RECURSIVE ConvertFrom(_, _, _, _, _, _)
ConvertFrom(data, filename, urls, baseDir, lastPos, buf) ==
  IF urls = <<>> THEN buf \o From(data, lastPos)
  ELSE Only({ IF pos = -1
              THEN ConvertFrom(data, filename, Tail(urls), baseDir, lastPos, buf)
              ELSE ConvertFrom(data, filename, Tail(urls), baseDir,
                     lastPos + pos + Len(Head(urls)),
                     buf \o SubSeq(data, lastPos + 1, lastPos + pos)
                         \o getRelativePath(filename, Head(urls), baseDir)) :
                pos \in { Index(From(data, lastPos), Head(urls)) } })

\* Converter.convertLinks, lines 78-105.
convertLinks(data, filename, urls, baseDir) ==
  ConvertFrom(data, filename, urls, baseDir, 0, <<>>)

\* NewConverter and Download lines 252-254.
CvInit ==
  /\ cvDir \in CvDirs
  /\ cvFile = <<>> /\ cvData = <<>> /\ cvURLs = <<>> /\ cvFiles = {}
  /\ cvOrig = <<>> /\ cvSaved = <<>> /\ cvPc = "new"

CvIdle ==
  /\ cvDir = <<".">>
  /\ cvFile = <<>> /\ cvData = <<>> /\ cvURLs = <<>> /\ cvFiles = {}
  /\ cvOrig = <<>> /\ cvSaved = <<>> /\ cvPc = "new"

\* A page of the crawl: downloadTextFile writes it at getOutputPath, and
\* parseAndQueueURLs parses it and registers it (AddConversion).
CvSavePage(page, hrefs) ==
  /\ cvPc = "new"
  /\ cvFile' = getOutputPath(page, cvDir)
  /\ cvData' = Doc(hrefs)
  /\ cvURLs' = HtmlParse(Doc(hrefs), page)
  /\ cvFiles' = {getOutputPath(page, cvDir)}
  /\ cvSaved' = Doc(hrefs)
  /\ cvPc' = "parsed"
  /\ UNCHANGED <<NotCv, cvDir, cvOrig>>

\* The jobs queued for the URLs of the page: those that succeed leave
\* their file at getOutputPath.
CvFetchLinks(fetched) ==
  /\ cvPc = "parsed"
  /\ cvFiles' = cvFiles \cup {getOutputPath(u, cvDir) : u \in fetched}
  /\ cvPc' = "fetched"
  /\ UNCHANGED <<NotCv, cvDir, cvFile, cvData, cvURLs, cvOrig, cvSaved>>

\* ConvertAll, lines 40-47, with ConvertFile, lines 50-75, on the
\* registered page: the backup, then the rewritten content.  Nothing keeps
\* ConvertAll from running again on a converted file.
CvConvertAll ==
  /\ cvPc \in {"fetched", "converted"}
  /\ cvOrig' = <<cvData>>
  /\ cvData' = convertLinks(cvData, cvFile, cvURLs, cvDir)
  /\ cvPc' = "converted"
  /\ UNCHANGED <<NotCv, cvDir, cvFile, cvURLs, cvFiles, cvSaved>>

\* RestoreBackup, lines 315-330, on the registered page.
CvRestoreBackup ==
  /\ cvPc = "converted" /\ cvOrig # <<>>
  /\ cvData' = cvOrig[1]
  /\ cvOrig' = <<>>
  /\ cvPc' = "restored"
  /\ UNCHANGED <<NotCv, cvDir, cvFile, cvURLs, cvFiles, cvSaved>>

CvNext ==
  \/ \E page \in CvPages, hrefs \in CvHrefSeqs : CvSavePage(page, hrefs)
  \/ \E fetched \in SUBSET {cvURLs[i] : i \in 1..Len(cvURLs)} : CvFetchLinks(fetched)
  \/ CvConvertAll
  \/ CvRestoreBackup

(***************************************************************************)
(* chunk.ChunkDownloader of internal/downloader/chunk/downloader.go: the   *)
(* chunk goroutines share one *os.File; each one positions it with Seek    *)
(* and then copies its body with io.Copy, whose Writes go to the offset of *)
(* the file and advance it.  One Write carries one byte.                   *)
(***************************************************************************)
SeekLen == 4   \* largest Content-Length of the Seek variant

SkInit ==
  /\ skCfg \in [L : 2..SeekLen, cs : 1..MaxChunkSz, m : 1..MaxThr]
  /\ skCfg.L > skCfg.cs
  /\ skChunks = <<>> /\ skPc = <<>> /\ skGot = <<>>
  /\ skCur = 0 /\ skTmp = <<>> /\ skSem = 0 /\ skErr = 0 /\ skMain = "new"

SkIdle ==
  /\ skCfg = [L |-> 2, cs |-> 1, m |-> 1]
  /\ skChunks = <<>> /\ skPc = <<>> /\ skGot = <<>>
  /\ skCur = 0 /\ skTmp = <<>> /\ skSem = 0 /\ skErr = 0 /\ skMain = "new"

\* downloadWithChunks, lines 105-145, and the loop of downloadChunks, lines
\* 160-183: the partition, the temp file, one goroutine per chunk.
SkLaunch ==
  /\ skMain = "new"
  /\ skChunks' = MakeChunks(skCfg.L, skCfg.cs, skCfg.m)
  /\ skPc' = [k \in 1..NumChunks(skCfg.L, skCfg.cs, skCfg.m) |-> "start"]
  /\ skGot' = [k \in 1..NumChunks(skCfg.L, skCfg.cs, skCfg.m) |-> 0]
  /\ skTmp' = <<>> /\ skCur' = 0
  /\ skMain' = "run"
  /\ UNCHANGED <<NotSk, skCfg, skSem, skErr>>

\* Line 167: semaphore <- struct{}{}.
SkAcquire(k) ==
  /\ skPc[k] = "start"
  /\ skSem < skCfg.m
  /\ skSem' = skSem + 1
  /\ skPc' = [skPc EXCEPT ![k] = "get"]
  /\ UNCHANGED <<NotSk, skCfg, skChunks, skGot, skCur, skTmp, skErr, skMain>>

\* downloadChunk lines 203-212: the ranged GET and the length check.
SkGet(k, ok) ==
  /\ skPc[k] = "get"
  /\ skPc' = [skPc EXCEPT ![k] = IF ok THEN "seek" ELSE "fail"]
  /\ UNCHANGED <<NotSk, skCfg, skChunks, skGot, skCur, skTmp, skSem, skErr, skMain>>

\* Line 215: file.Seek(chunk.Start, io.SeekStart) on the shared file.
SkSeek(k) ==
  /\ skPc[k] = "seek"
  /\ skCur' = skChunks[k].Start
  /\ skPc' = [skPc EXCEPT ![k] = "copy"]
  /\ UNCHANGED <<NotSk, skCfg, skChunks, skGot, skTmp, skSem, skErr, skMain>>

\* Line 220: one Write of io.Copy(file, reader): the next byte of the body
\* goes to the offset of the file, which moves on by one.
SkWrite(k) ==
  /\ skPc[k] = "copy"
  /\ skGot[k] < skChunks[k].Size
  /\ skTmp' = PutByte(skTmp, skCur, Data(skCfg.L)[skChunks[k].Start + skGot[k] + 1])
  /\ skCur' = skCur + 1
  /\ skGot' = [skGot EXCEPT ![k] = @ + 1]
  /\ UNCHANGED <<NotSk, skCfg, skChunks, skPc, skSem, skErr, skMain>>

\* Lines 178-182 and the deferred release: the body is at its end.
SkCopyDone(k) ==
  /\ skPc[k] = "copy"
  /\ skGot[k] = skChunks[k].Size
  /\ skChunks' = [skChunks EXCEPT ![k].Status = "Completed"]
  /\ skSem' = skSem - 1
  /\ skPc' = [skPc EXCEPT ![k] = "done"]
  /\ UNCHANGED <<NotSk, skCfg, skGot, skCur, skTmp, skErr, skMain>>

\* Lines 171-175: the error goes to cd.errorCh, Status = Failed.
SkFail(k) ==
  /\ skPc[k] = "fail"
  /\ skErr' = skErr + 1
  /\ skChunks' = [skChunks EXCEPT ![k].Status = "Failed"]
  /\ skSem' = skSem - 1
  /\ skPc' = [skPc EXCEPT ![k] = "done"]
  /\ UNCHANGED <<NotSk, skCfg, skGot, skCur, skTmp, skMain>>

\* Lines 186-195: wg.Wait, then the first error of the channel or nil.
SkReturn ==
  /\ skMain = "run"
  /\ \A k \in 1..Len(skPc) : skPc[k] = "done"
  /\ skMain' = IF skErr > 0 THEN "err" ELSE "ok"
  /\ UNCHANGED <<NotSk, skCfg, skChunks, skPc, skGot, skCur, skTmp, skSem, skErr>>

SkNext ==
  \/ SkLaunch
  \/ \E k \in 1..Len(skPc) : SkAcquire(k)
  \/ \E k \in 1..Len(skPc), ok \in BOOLEAN : SkGet(k, ok)
  \/ \E k \in 1..Len(skPc) : SkSeek(k)
  \/ \E k \in 1..Len(skPc) : SkWrite(k)
  \/ \E k \in 1..Len(skPc) : SkCopyDone(k)
  \/ \E k \in 1..Len(skPc) : SkFail(k)
  \/ SkReturn

\* ---------------------------------------------------------------------------
\* saveDownloadState followed by loadDownloadState, without concurrency: one
\* run saves the progress of its chunks, a later run partitions again and
\* loads (manager.go lines 912-996).
LoadLen == 3   \* largest Content-Length of the runs that save and load

LsConfigs == [L : 2..LoadLen, cs : 1..MaxChunkSz, m : 1..MaxThr]

\* The statuses a chunk of the downloader takes (lines 548, 571, 629, 663).
LsStatuses == {"Pending", "Downloading", "Completed", "Failed"}

\* Every progress chunks of the shape cks can have made.
Progress(cks) ==
  { [k \in 1..Len(cks) |->
       [cks[k] EXCEPT !.Completed = f[k].c, !.Status = f[k].s]] :
    f \in { g \in [1..Len(cks) -> [c : 0..LoadLen, s : LsStatuses]] :
              \A k \in 1..Len(cks) : g[k].c <= cks[k].Size } }

\* The records saveDownloadState writes for chunks nobody else touches.
SavedRecords(cks) == [k \in 1..Len(cks) |-> ChunkState(cks[k])]

LsInit ==
  /\ lsCfg \in LsConfigs
  /\ lsSaved = <<>>
  /\ lsFile = NoState
  /\ lsChunks = <<>>
  /\ lsOut = <<>>
  /\ lsRet = "none"
  /\ lsPc = "new"

LsIdle ==
  /\ lsCfg = [L |-> 2, cs |-> 1, m |-> 1]
  /\ lsSaved = <<>>
  /\ lsFile = NoState
  /\ lsChunks = <<>>
  /\ lsOut = <<>>
  /\ lsRet = "none"
  /\ lsPc = "new"

\* saveDownloadState of a run that got as far as cks.
LsSave(cks) ==
  /\ lsPc = "new"
  /\ lsSaved' = cks
  /\ lsFile' = [ex |-> TRUE, ok |-> TRUE, recs |-> SavedRecords(cks)]
  /\ lsPc' = "saved"
  /\ UNCHANGED <<lsCfg, lsChunks, lsOut, lsRet>>
  /\ UNCHANGED NotLs

\* loadDownloadState into the fresh partition of a run configured by cfg.
LsLoad(cfg) ==
  /\ lsPc \in {"new", "saved"}
  /\ lsChunks' = MakeChunks(cfg.L, cfg.cs, cfg.m)
  /\ IF ~lsFile.ex
     THEN /\ lsRet' = FALSE
          /\ lsOut' = MakeChunks(cfg.L, cfg.cs, cfg.m)
     ELSE /\ lsRet' = TRUE
          /\ lsOut' = loadDownloadState(lsFile.recs, MakeChunks(cfg.L, cfg.cs, cfg.m))
  /\ lsPc' = "loaded"
  /\ UNCHANGED <<lsCfg, lsSaved, lsFile>>
  /\ UNCHANGED NotLs

LsNext ==
  \/ \E cks \in Progress(MakeChunks(lsCfg.L, lsCfg.cs, lsCfg.m)) : LsSave(cks)
  \/ \E cfg \in LsConfigs : LsLoad(cfg)

\* ---------------------------------------------------------------------------
\* queue.Manager called from several goroutines.  Manager has its own
\* sync.RWMutex (m.mutex, manager.go line 18) and URLQueue has another one
\* (q.Mutex, types.go line 181).  Every URLQueue method holds q.Mutex from its
\* first to its last statement, so it is one step here; the statements of a
\* Manager method that touch m.queue.Jobs directly are steps of their own.
QlThreads == 2   \* goroutines calling the Manager

QlProcs == 1..QlThreads

NoArg == [url |-> "", i |-> 0]

QlInit ==
  /\ qlJobs = <<>> /\ qlIndex = {}
  /\ qlMu = 0
  /\ qlPc = [t \in QlProcs |-> "idle"]
  /\ qlArg = [t \in QlProcs |-> NoArg]
  /\ qlFail = FALSE

QlIdle ==
  /\ qlJobs = <<>> /\ qlIndex = {}
  /\ qlMu = 0
  /\ qlPc = <<>>
  /\ qlArg = <<>>
  /\ qlFail = FALSE

\* Manager.Add, lines 32-52, with nothing blacklisted or visited: m.mutex is
\* held for the whole call, URLQueue.Add runs under q.Mutex.
QlAdd(t, u) ==
  /\ ~qlFail /\ qlPc[t] = "idle" /\ qlMu = 0
  /\ qlJobs' = QueueAdd(qlJobs, qlIndex, u).jobs
  /\ qlIndex' = QueueAdd(qlJobs, qlIndex, u).index
  /\ UNCHANGED <<qlMu, qlPc, qlArg, qlFail>>
  /\ UNCHANGED NotQl

\* Manager.Pop, lines 55-57: m.mutex is not taken; URLQueue.Pop, types.go
\* lines 208-219, holds q.Mutex only.
QlPop(t) ==
  /\ ~qlFail /\ qlPc[t] = "idle"
  /\ qlJobs' = IF qlJobs = <<>> THEN qlJobs ELSE Tail(qlJobs)
  /\ UNCHANGED <<qlIndex, qlMu, qlPc, qlArg, qlFail>>
  /\ UNCHANGED NotQl

\* Manager.Clear, lines 156-164, under m.mutex.
QlClear(t) ==
  /\ ~qlFail /\ qlPc[t] = "idle" /\ qlMu = 0
  /\ qlJobs' = <<>> /\ qlIndex' = {}
  /\ UNCHANGED <<qlMu, qlPc, qlArg, qlFail>>
  /\ UNCHANGED NotQl

\* Manager.Peek, lines 208-217.  m.mutex.Lock()
QlPeekLock(t) ==
  /\ ~qlFail /\ qlPc[t] = "idle" /\ qlMu = 0
  /\ qlMu' = t
  /\ qlPc' = [qlPc EXCEPT ![t] = "peek_check"]
  /\ UNCHANGED <<qlJobs, qlIndex, qlArg, qlFail>>
  /\ UNCHANGED NotQl

\* if m.queue.IsEmpty() { return nil }: q.Mutex is taken and released.
QlPeekCheck(t) ==
  /\ ~qlFail /\ qlPc[t] = "peek_check"
  /\ IF qlJobs = <<>>
     THEN qlMu' = 0 /\ qlPc' = [qlPc EXCEPT ![t] = "idle"]
     ELSE qlMu' = qlMu /\ qlPc' = [qlPc EXCEPT ![t] = "peek_read"]
  /\ UNCHANGED <<qlJobs, qlIndex, qlArg, qlFail>>
  /\ UNCHANGED NotQl

\* return m.queue.Jobs[0]: read without q.Mutex; an empty slice panics.
QlPeekRead(t) ==
  /\ ~qlFail /\ qlPc[t] = "peek_read"
  /\ qlFail' = (qlJobs = <<>>)
  /\ qlMu' = 0
  /\ qlPc' = [qlPc EXCEPT ![t] = "idle"]
  /\ UNCHANGED <<qlJobs, qlIndex, qlArg>>
  /\ UNCHANGED NotQl

\* Manager.Remove, lines 220-238.  m.mutex.Lock()
QlRemoveLock(t, u) ==
  /\ ~qlFail /\ qlPc[t] = "idle" /\ qlMu = 0
  /\ qlMu' = t
  /\ qlPc' = [qlPc EXCEPT ![t] = "rm_check"]
  /\ qlArg' = [qlArg EXCEPT ![t] = [url |-> u, i |-> 0]]
  /\ UNCHANGED <<qlJobs, qlIndex, qlFail>>
  /\ UNCHANGED NotQl

\* if !m.queue.Contains(url) { return false }
QlRemoveCheck(t) ==
  /\ ~qlFail /\ qlPc[t] = "rm_check"
  /\ IF qlArg[t].url \in qlIndex
     THEN qlMu' = qlMu /\ qlPc' = [qlPc EXCEPT ![t] = "rm_range"] /\ qlArg' = qlArg
     ELSE qlMu' = 0 /\ qlPc' = [qlPc EXCEPT ![t] = "idle"]
          /\ qlArg' = [qlArg EXCEPT ![t] = NoArg]
  /\ UNCHANGED <<qlJobs, qlIndex, qlFail>>
  /\ UNCHANGED NotQl

\* for i, job := range m.queue.Jobs { if job.URL == url {: the position of
\* the URL in the slice as it is when the loop reads it (1-based here).
QlRemoveRange(t) ==
  /\ ~qlFail /\ qlPc[t] = "rm_range"
  /\ IF \E i \in 1..Len(qlJobs) : qlJobs[i] = qlArg[t].url
     THEN /\ qlArg' = [qlArg EXCEPT ![t].i =
                         CHOOSE i \in 1..Len(qlJobs) :
                           /\ qlJobs[i] = qlArg[t].url
                           /\ \A j \in 1..(i - 1) : qlJobs[j] # qlArg[t].url]
          /\ qlMu' = qlMu /\ qlPc' = [qlPc EXCEPT ![t] = "rm_cut"]
     ELSE /\ qlArg' = [qlArg EXCEPT ![t] = NoArg]
          /\ qlMu' = 0 /\ qlPc' = [qlPc EXCEPT ![t] = "idle"]
  /\ UNCHANGED <<qlJobs, qlIndex, qlFail>>
  /\ UNCHANGED NotQl

\* m.queue.Jobs = append(m.queue.Jobs[:i], m.queue.Jobs[i+1:]...) and
\* delete(m.queue.Index, url): the slice is read again, without q.Mutex; a
\* position past its end panics.
QlRemoveCut(t) ==
  /\ ~qlFail /\ qlPc[t] = "rm_cut"
  /\ IF qlArg[t].i > Len(qlJobs)
     THEN qlFail' = TRUE /\ UNCHANGED <<qlJobs, qlIndex>>
     ELSE /\ qlFail' = FALSE
          /\ qlJobs' = SubSeq(qlJobs, 1, qlArg[t].i - 1)
                         \o SubSeq(qlJobs, qlArg[t].i + 1, Len(qlJobs))
          /\ qlIndex' = qlIndex \ {qlArg[t].url}
  /\ qlMu' = 0
  /\ qlPc' = [qlPc EXCEPT ![t] = "idle"]
  /\ qlArg' = [qlArg EXCEPT ![t] = NoArg]
  /\ UNCHANGED NotQl

QlNext ==
  \E t \in QlProcs :
    \/ \E u \in URLs : QlAdd(t, u)
    \/ QlPop(t)
    \/ QlClear(t)
    \/ QlPeekLock(t)
    \/ QlPeekCheck(t)
    \/ QlPeekRead(t)
    \/ \E u \in URLs : QlRemoveLock(t, u)
    \/ QlRemoveCheck(t)
    \/ QlRemoveRange(t)
    \/ QlRemoveCut(t)

\* ---------------------------------------------------------------------------
\* The two mappings from a URL to a local path: getOutputPath, with which
\* processJob chooses the file to write (README.md line 323), and the
\* converter's getURLPath, from which links to that URL are rewritten.
MapLen == 3   \* longest text after the host name of a mapped URL

MapChars == {"/", "a", "?", "#"}

\* What follows the host: nothing, a path, a query, a fragment.
MapTails ==
  {t \in UNION {[1..n -> MapChars] : n \in 0..MapLen} : t = <<>> \/ t[1] # "a"}

MapURLs == {URLOf(t) : t \in MapTails}

MpInit ==
  /\ mpURL \in MapURLs
  /\ mpDir \in {OutputDir, <<"O", "/", "a">>}
  /\ mpSaved = <<>> /\ mpTarget = <<>>
  /\ mpPc = [saved |-> FALSE, mapped |-> FALSE]

MpIdle ==
  /\ mpURL = <<>> /\ mpDir = <<>>
  /\ mpSaved = <<>> /\ mpTarget = <<>>
  /\ mpPc = [saved |-> FALSE, mapped |-> FALSE]

\* processJob: outputPath := rd.getOutputPath(job.URL, outputDir)
MpSave ==
  /\ ~mpPc.saved
  /\ mpSaved' = getOutputPath(mpURL, mpDir)
  /\ mpPc' = [mpPc EXCEPT !.saved = TRUE]
  /\ UNCHANGED <<mpURL, mpDir, mpTarget>>
  /\ UNCHANGED NotMp

\* getRelativePath: targetPath := c.getURLPath(targetURL)
MpMap ==
  /\ ~mpPc.mapped
  /\ mpTarget' = getURLPath(mpURL, mpDir)
  /\ mpPc' = [mpPc EXCEPT !.mapped = TRUE]
  /\ UNCHANGED <<mpURL, mpDir, mpSaved>>
  /\ UNCHANGED NotMp

MpNext ==
  \/ MpSave
  \/ MpMap

\* ---------------------------------------------------------------------------
\* http.Client and ProxyManager (NewClient, setHeaders, GetProxyForURL,
\* isNoProxy, GetProxyAuthHeader).  A proxy is named by its list and its
\* position in the list; host names are "h", "b", "B" and "h.b".
MaxProxies == 2   \* most proxies in http_proxy and in https_proxy
MaxReqs == 3      \* requests a client sends

PxHosts == { <<"h">>, <<"B">>, <<"h", ".", "b">> }
PxNoProxyLists == { <<>>, << <<"b">> >>, << <<".", "b">> >> }

PxConfigs ==
  [enabled : BOOLEAN, http : 0..MaxProxies, https : 0..MaxProxies,
   noProxy : PxNoProxyLists, creds : BOOLEAN]

\* strings.HasSuffix
HasSuffix(str, suf) ==
  /\ Len(suf) <= Len(str)
  /\ \A j \in 1..Len(suf) : str[Len(str) - Len(suf) + j] = suf[j]

\* NewClient lines 228-236: is there a ProxyManager.
HasProxyManager(cfg) == cfg.enabled \/ cfg.http > 0 \/ cfg.https > 0

\* isNoProxy, lines 163-201, for host names: the exact match and the
\* domain suffix match, both on lower-case text.
isNoProxy(noProxyList, host) ==
  \E i \in 1..Len(noProxyList) :
     \/ ToLower(host) = ToLower(noProxyList[i])
     \/ /\ HasPrefix(ToLower(noProxyList[i]), <<".">>)
        /\ \/ ToLower(host) = Tail(ToLower(noProxyList[i]))
           \/ HasSuffix(ToLower(host), ToLower(noProxyList[i]))

\* A GetProxyForURL that never moves on to the next proxy.
GetProxyForURLSticky(cfg, httpIndex, httpsIndex, scheme, host) ==
  IF isNoProxy(cfg.noProxy, host) \/ (scheme = "http" /\ cfg.http = 0)
       \/ (cfg.http = 0 /\ cfg.https = 0)
  THEN [list |-> "none", pos |-> 0, httpIndex |-> httpIndex, httpsIndex |-> httpsIndex]
  ELSE IF scheme = "https" /\ cfg.https > 0
  THEN [list |-> "https", pos |-> 1, httpIndex |-> httpIndex, httpsIndex |-> httpsIndex + 1]
  ELSE [list |-> "http", pos |-> 1, httpIndex |-> httpIndex + 1, httpsIndex |-> httpsIndex]

\* GetProxyForURL, lines 125-160: the proxy chosen and the two indexes
\* after the call.
GetProxyForURL(cfg, httpIndex, httpsIndex, scheme, host) ==
  IF isNoProxy(cfg.noProxy, host)
  THEN [list |-> "none", pos |-> 0, httpIndex |-> httpIndex, httpsIndex |-> httpsIndex]
  ELSE IF scheme = "https" /\ cfg.https > 0
  THEN [list |-> "https", pos |-> (httpsIndex % cfg.https) + 1,
        httpIndex |-> httpIndex, httpsIndex |-> httpsIndex + 1]
  ELSE IF cfg.http > 0
  THEN [list |-> "http", pos |-> (httpIndex % cfg.http) + 1,
        httpIndex |-> httpIndex + 1, httpsIndex |-> httpsIndex]
  ELSE [list |-> "none", pos |-> 0, httpIndex |-> httpIndex, httpsIndex |-> httpsIndex]

\* GetProxyAuthHeader, lines 254-261: is the header text not empty.
GetProxyAuthHeader(cfg) == cfg.creds

\* setHeaders, part_002 lines 364-370: is Proxy-Authorization set.
setHeaders(cfg) == HasProxyManager(cfg) /\ cfg.creds /\ GetProxyAuthHeader(cfg)

PxInit ==
  /\ pxCfg \in PxConfigs
  /\ pxHttpIndex = 0 /\ pxHttpsIndex = 0
  /\ pxLog = <<>>

PxIdle ==
  /\ pxCfg = [enabled |-> FALSE, http |-> 0, https |-> 0, noProxy |-> <<>>,
              creds |-> FALSE]
  /\ pxHttpIndex = 0 /\ pxHttpsIndex = 0
  /\ pxLog = <<>>

\* One request of the client: setHeaders, then the transport asks its Proxy
\* function, which holds proxyMutex while it chooses.  Requests of several
\* goroutines choose one after the other, in some order.
PxRequest(scheme, host) ==
  /\ Len(pxLog) < MaxReqs
  /\ LET sel == IF HasProxyManager(pxCfg)
                THEN GetProxyForURL(pxCfg, pxHttpIndex, pxHttpsIndex, scheme, host)
                ELSE [list |-> "none", pos |-> 0, httpIndex |-> pxHttpIndex,
                      httpsIndex |-> pxHttpsIndex]
     IN  /\ pxHttpIndex' = sel.httpIndex
         /\ pxHttpsIndex' = sel.httpsIndex
         /\ pxLog' = Append(pxLog, [scheme |-> scheme, host |-> host,
                                    list |-> sel.list, pos |-> sel.pos,
                                    auth |-> setHeaders(pxCfg)])
  /\ UNCHANGED pxCfg
  /\ UNCHANGED NotPx

PxNext == \E scheme \in {"http", "https"}, host \in PxHosts : PxRequest(scheme, host)

\* Parse has returned and, when cached is set, downloadRobotsTxt has handed
\* the rules to the queue manager (README.md lines 562-568).  The parser's
\* IsAllowed and the manager's IsAllowedByRobots are asked about the same
\* path on host h.  The rules do not change once queries are made, so one
\* query per parsed file reaches every answer.
Query(ua, path, cached) ==
  /\ ~rbQuery.asked
  /\ rbQuery' = [asked |-> TRUE, ua |-> ua, path |-> path,
                 allowed |-> IsAllowed(rbRules, rbDefaults, path, ua),
                 cached |-> cached,
                 manager |-> IsAllowedByRobots(
                               IF cached
                               THEN <<[rules |-> rbRules, defaults |-> rbDefaults]>>
                               ELSE <<>>,
                               URLOf(path))]
  /\ UNCHANGED <<rbRules, rbDefaults, rbLines, NotRb>>

RbNext ==
  \/ \E v \in RuleAgents : ParseUserAgent(v)
  \/ \E v \in {p \in Patterns : ValidPattern(p)} : ParseDisallow(v)
  \/ \E v \in {p \in Patterns : ValidPattern(p)} : ParseAllow(v)
  \/ ParseOther
  \/ \E ua \in QueryAgents, path \in Paths, cached \in BOOLEAN : Query(ua, path, cached)

PtIdle == pL = 1 /\ pCS = 0 /\ pM = 1 /\ pChunks = <<>> /\ pDone = FALSE

\* The components start side by side; one of them runs.
\* ---------------------------------------------------------------------------
\* downloadChunks (multi_thread/manager.go 538-614) with as many chunks as
\* max_threads allows.  The goroutines run the same code, so the state
\* counts them by position: pending (launched, before semaphore <- ...),
\* holding (slot taken, downloadChunk running), sending (downloadChunk
\* failed, at cd.errorCh <- ...); the others have returned.
WgOver == 1   \* chunks beyond the capacity of cd.errorCh

WgThreads == {1, 2, ErrorChCap + WgOver}
WgLengths == {2, 3, ErrorChCap + WgOver}

\* downloadWithChunks lines 409-414: the number of chunks of a file of
\* cfg.ContentLength bytes with chunk_size 1.
WgChunks(cfg) == NumChunks(cfg.ContentLength, 1, cfg.MaxThreads)

WgConfigs ==
  { cfg \in [MaxThreads : WgThreads, ContentLength : WgLengths,
             Failing : 0..(ErrorChCap + WgOver)] :
      cfg.Failing \in {0, 1, WgChunks(cfg)} }

WgInit ==
  /\ wgCfg \in WgConfigs
  /\ wgGood = [pending |-> 0, holding |-> 0]
  /\ wgBad = [pending |-> 0, holding |-> 0, sending |-> 0]
  /\ wgSem = 0 /\ wgErr = 0 /\ wgMain = "loop"

WgIdle ==
  /\ wgCfg = [MaxThreads |-> 1, ContentLength |-> 2, Failing |-> 0]
  /\ wgGood = [pending |-> 0, holding |-> 0]
  /\ wgBad = [pending |-> 0, holding |-> 0, sending |-> 0]
  /\ wgSem = 0 /\ wgErr = 0 /\ wgMain = "idle"

\* Goroutines that have not returned.
Running == wgGood.pending + wgGood.holding
           + wgBad.pending + wgBad.holding + wgBad.sending

\* Lines 550-553: the loop launches one goroutine per chunk (wg.Add(1)
\* before each go statement) and reaches wg.Wait().
WgLaunch ==
  /\ wgMain = "loop"
  /\ wgGood' = [wgGood EXCEPT !.pending = WgChunks(wgCfg) - wgCfg.Failing]
  /\ wgBad' = [wgBad EXCEPT !.pending = wgCfg.Failing]
  /\ wgMain' = "wait"
  /\ UNCHANGED <<NotWg, wgCfg, wgSem, wgErr>>

\* Line 557: semaphore <- struct{}{} blocks while the channel is full.
WgAcquireGood ==
  /\ wgGood.pending > 0
  /\ wgSem < wgCfg.MaxThreads
  /\ wgSem' = wgSem + 1
  /\ wgGood' = [pending |-> wgGood.pending - 1, holding |-> wgGood.holding + 1]
  /\ UNCHANGED <<NotWg, wgCfg, wgBad, wgErr, wgMain>>

WgAcquireBad ==
  /\ wgBad.pending > 0
  /\ wgSem < wgCfg.MaxThreads
  /\ wgSem' = wgSem + 1
  /\ wgBad' = [wgBad EXCEPT !.pending = @ - 1, !.holding = @ + 1]
  /\ UNCHANGED <<NotWg, wgCfg, wgGood, wgErr, wgMain>>

\* Lines 567-594: downloadChunk returned nil; the goroutine records the
\* chunk, returns, and its deferred calls free the slot and call wg.Done.
WgChunkDone ==
  /\ wgGood.holding > 0
  /\ wgGood' = [wgGood EXCEPT !.holding = @ - 1]
  /\ wgSem' = wgSem - 1
  /\ UNCHANGED <<NotWg, wgCfg, wgBad, wgErr, wgMain>>

\* Line 567: downloadChunk returned an error; the goroutine is at the send.
WgChunkFail ==
  /\ wgBad.holding > 0
  /\ wgBad' = [wgBad EXCEPT !.holding = @ - 1, !.sending = @ + 1]
  /\ UNCHANGED <<NotWg, wgCfg, wgGood, wgSem, wgErr, wgMain>>

\* Lines 568-576: cd.errorCh <- err blocks while the buffer is full; after
\* the send the goroutine returns and frees its slot.
WgSend ==
  /\ wgBad.sending > 0
  /\ wgErr < ErrorChCap
  /\ wgErr' = wgErr + 1
  /\ wgBad' = [wgBad EXCEPT !.sending = @ - 1]
  /\ wgSem' = wgSem - 1
  /\ UNCHANGED <<NotWg, wgCfg, wgGood, wgMain>>

\* Line 598: wg.Wait() returns when every goroutine has called wg.Done.
WgWait ==
  /\ wgMain = "wait"
  /\ Running = 0
  /\ wgMain' = "drain"
  /\ UNCHANGED <<NotWg, wgCfg, wgGood, wgBad, wgSem, wgErr>>

\* Lines 600-614: the buffered errors are read and the first one returned.
WgDrain ==
  /\ wgMain = "drain"
  /\ wgErr' = 0
  /\ wgMain' = IF wgErr > 0 THEN "error" ELSE "nil"
  /\ UNCHANGED <<NotWg, wgCfg, wgGood, wgBad, wgSem>>

WgNext ==
  \/ WgLaunch
  \/ WgAcquireGood
  \/ WgAcquireBad
  \/ WgChunkDone
  \/ WgChunkFail
  \/ WgSend
  \/ WgWait
  \/ WgDrain

\* ---------------------------------------------------------------------------
\* reportProgress (multi_thread/manager.go 815-854), started by
\* downloadChunks at line 548, next to the Download that started it.
ProgressChCap == 100 \* make(chan types.ProgressInfo, 100)

RpInit ==
  /\ rpReceiver \in BOOLEAN
  /\ rpMain = "running" /\ rpPc = "select" /\ rpProgress = 0
  /\ rpStop = FALSE /\ rpCtx = FALSE

RpIdle ==
  /\ rpReceiver = FALSE
  /\ rpMain = "idle" /\ rpPc = "stopped" /\ rpProgress = 0
  /\ rpStop = FALSE /\ rpCtx = FALSE

\* downloadChunks and Download return, with or without an error; nothing
\* is told to the reporter.
RpReturn(err) ==
  /\ rpMain = "running"
  /\ rpMain' = IF err THEN "error" ELSE "nil"
  /\ UNCHANGED <<NotRp, rpReceiver, rpPc, rpProgress, rpStop, rpCtx>>

\* Lines 820-825: the select takes case <-ctx.Done() or case <-cd.stopCh.
RpDone ==
  /\ rpPc = "select"
  /\ rpCtx \/ rpStop
  /\ rpPc' = "stopped"
  /\ UNCHANGED <<NotRp, rpReceiver, rpMain, rpProgress, rpStop, rpCtx>>

\* Lines 826-842: the select takes case <-ticker.C (every 500 ms) and the
\* progress value is computed.
RpTick ==
  /\ rpPc = "select"
  /\ rpPc' = "send"
  /\ UNCHANGED <<NotRp, rpReceiver, rpMain, rpProgress, rpStop, rpCtx>>

\* Lines 844-851: cd.progressCh <- ..., a plain send that blocks while the
\* buffer is full.
RpSend ==
  /\ rpPc = "send"
  /\ rpProgress < ProgressChCap
  /\ rpProgress' = rpProgress + 1
  /\ rpPc' = "select"
  /\ UNCHANGED <<NotRp, rpReceiver, rpMain, rpStop, rpCtx>>

\* The caller receives one value from GetProgressChannel().
RpReceive ==
  /\ rpReceiver
  /\ rpProgress > 0
  /\ rpProgress' = rpProgress - 1
  /\ UNCHANGED <<NotRp, rpReceiver, rpMain, rpPc, rpStop, rpCtx>>

\* Stop(), lines 902-904: close(cd.stopCh).
RpStop ==
  /\ ~rpStop
  /\ rpStop' = TRUE
  /\ UNCHANGED <<NotRp, rpReceiver, rpMain, rpPc, rpProgress, rpCtx>>

\* The caller cancels the context.
RpCancel ==
  /\ ~rpCtx
  /\ rpCtx' = TRUE
  /\ UNCHANGED <<NotRp, rpReceiver, rpMain, rpPc, rpProgress, rpStop>>

RpNext ==
  \/ \E err \in BOOLEAN : RpReturn(err)
  \/ RpDone
  \/ RpTick
  \/ RpSend
  \/ RpReceive
  \/ RpStop
  \/ RpCancel

\* ---------------------------------------------------------------------------
\* DownloadManager (multi_thread/manager.go 14-193).  Every method body
\* that runs between dm.mu.Lock() and Unlock() is one step.  A task object
\* records how often Download was invoked for it (calls) and whether
\* ResumeTask ever succeeded on it (resumed).
MaxStarts == 2      \* Start calls made on one manager
MaxTasks == 2       \* task objects created by AddTask
DmErrorChCap == 100 \* NewDownloadManager: make(chan error, 100)

DmURLs == {"a", "b"}

DmInit ==
  /\ dmTasks = [u \in DmURLs |-> 0]
  /\ dmObjs = <<>> /\ dmGos = <<>> /\ dmStarts = <<>> /\ dmErr = 0

DmIdle ==
  /\ dmTasks = [u \in DmURLs |-> 0]
  /\ dmObjs = <<>> /\ dmGos = <<>> /\ dmStarts = <<>> /\ dmErr = 0

\* AddTask, lines 42-62.
AddTask(url) ==
  /\ Len(dmObjs) < MaxTasks
  /\ dmTasks[url] = 0
  /\ dmObjs' = Append(dmObjs, [URL |-> url, Status |-> "Pending",
                               calls |-> 0, resumed |-> FALSE])
  /\ dmTasks' = [dmTasks EXCEPT ![url] = Len(dmObjs) + 1]
  /\ UNCHANGED <<NotDm, dmGos, dmStarts, dmErr>>

\* The task objects of dm.tasks whose Status is Pending, by index.
PendingObjs ==
  SelectSeq([i \in 1..Len(dmObjs) |-> i],
            LAMBDA i : dmTasks[dmObjs[i].URL] = i /\ dmObjs[i].Status = "Pending")

\* Start, lines 65-80: under dm.mu, one goroutine is launched for every
\* task that is Pending.
StartCall ==
  /\ Len(dmStarts) < MaxStarts
  /\ dmStarts' = Append(dmStarts, "wait")
  /\ dmGos' = dmGos \o [k \in 1..Len(PendingObjs) |->
                          [obj |-> PendingObjs[k], pc |-> "launched",
                           start |-> Len(dmStarts) + 1]]
  /\ UNCHANGED <<NotDm, dmTasks, dmObjs, dmErr>>

\* Start, lines 82-92: wg.Wait() and the select on dm.errorCh.
StartReturn(s) ==
  /\ dmStarts[s] = "wait"
  /\ \A g \in 1..Len(dmGos) : dmGos[g].start = s => dmGos[g].pc = "done"
  /\ dmStarts' = [dmStarts EXCEPT ![s] = IF dmErr > 0 THEN "error" ELSE "nil"]
  /\ dmErr' = IF dmErr > 0 THEN dmErr - 1 ELSE 0
  /\ UNCHANGED <<NotDm, dmTasks, dmObjs, dmGos>>

\* downloadTask, lines 96-101: Status = Downloading under dm.mu, then
\* dm.downloader.Download is invoked.
TaskBegin(g) ==
  /\ dmGos[g].pc = "launched"
  /\ dmGos' = [dmGos EXCEPT ![g].pc = "download"]
  /\ dmObjs' = [dmObjs EXCEPT ![dmGos[g].obj].Status = "Downloading",
                              ![dmGos[g].obj].calls = @ + 1]
  /\ UNCHANGED <<NotDm, dmTasks, dmStarts, dmErr>>

\* downloadTask, lines 103-113: Download has returned; under dm.mu the
\* Status becomes Failed (and the error is sent to dm.errorCh) or Completed.
TaskEnd(g, failed) ==
  /\ dmGos[g].pc = "download"
  /\ failed => dmErr < DmErrorChCap
  /\ dmGos' = [dmGos EXCEPT ![g].pc = "done"]
  /\ dmObjs' = [dmObjs EXCEPT ![dmGos[g].obj].Status =
                                 IF failed THEN "Failed" ELSE "Completed"]
  /\ dmErr' = IF failed THEN dmErr + 1 ELSE dmErr
  /\ UNCHANGED <<NotDm, dmTasks, dmStarts>>

\* RemoveTask, lines 155-166; a call for an absent URL changes nothing.
RemoveTask(url) ==
  /\ dmTasks[url] # 0
  /\ dmTasks' = [dmTasks EXCEPT ![url] = 0]
  /\ UNCHANGED <<NotDm, dmObjs, dmGos, dmStarts, dmErr>>

\* PauseTask, lines 168-180, returning true; otherwise nothing changes.
PauseTask(url) ==
  /\ dmTasks[url] # 0
  /\ dmObjs[dmTasks[url]].Status = "Downloading"
  /\ dmObjs' = [dmObjs EXCEPT ![dmTasks[url]].Status = "Paused"]
  /\ UNCHANGED <<NotDm, dmTasks, dmGos, dmStarts, dmErr>>

\* ResumeTask, lines 182-193, returning true; otherwise nothing changes.
ResumeTask(url) ==
  /\ dmTasks[url] # 0
  /\ dmObjs[dmTasks[url]].Status = "Paused"
  /\ dmObjs' = [dmObjs EXCEPT ![dmTasks[url]].Status = "Pending",
                              ![dmTasks[url]].resumed = TRUE]
  /\ UNCHANGED <<NotDm, dmTasks, dmGos, dmStarts, dmErr>>

DmNext ==
  \/ \E url \in DmURLs : AddTask(url)
  \/ StartCall
  \/ \E s \in 1..Len(dmStarts) : StartReturn(s)
  \/ \E g \in 1..Len(dmGos) : TaskBegin(g)
  \/ \E g \in 1..Len(dmGos), failed \in BOOLEAN : TaskEnd(g, failed)
  \/ \E url \in DmURLs : RemoveTask(url)
  \/ \E url \in DmURLs : PauseTask(url)
  \/ \E url \in DmURLs : ResumeTask(url)

Together(a, b, c, d) == a /\ b /\ c /\ d

\* The components that stay as constructed while another one runs.
Idle(a, b) == a /\ b

InitDL == Together(DlInit, PtIdle, QuInit, Idle(RbInit, Idle(EtaIdle, Idle(SfIdle, Idle(CrIdle, Idle(CvIdle, Idle(SkIdle, Idle(LsIdle, Idle(QlIdle, Idle(MpIdle, Idle(PxIdle, Idle(WgIdle, Idle(RpIdle, DmIdle)))))))))))))

SpecDL == InitDL /\ [][DlNext]_vars

DlIdle == DlInit /\ L = 1 /\ cs = 0 /\ m = 1 /\ ar = FALSE /\ rs = FALSE

PtNext == Partition

InitPart == Together(PartInit, DlIdle, QuInit, Idle(RbInit, Idle(EtaIdle, Idle(SfIdle, Idle(CrIdle, Idle(CvIdle, Idle(SkIdle, Idle(LsIdle, Idle(QlIdle, Idle(MpIdle, Idle(PxIdle, Idle(WgIdle, Idle(RpIdle, DmIdle)))))))))))))

SpecPart == InitPart /\ [][PtNext]_vars

(***************************************************************************)
(* Properties of the downloader.                                           *)
(***************************************************************************)
Returned == dpc = "done" /\ result \in {"ok", "err"}

AllComplete(cks) ==
  \A k \in 1..Len(cks) :
     cks[k].Status = "Completed" /\ cks[k].Completed = cks[k].Size

\* C1: whenever Download took the chunked path and returned success, every
\* chunk ended Completed with completed = size and the output file is the
\* resource: Content-Length bytes, every region holding the server's bytes.
C1_ChunkedSuccessIsComplete ==
  (Returned /\ result = "ok" /\ via = "chunked")
     => /\ AllComplete(chunks)
        /\ out.ex /\ out.b = Data(L)

CeilDiv(a, b) == IF a % b = 0 THEN a \div b ELSE (a \div b) + 1

\* C2: partition law.  For L > cs > 0 and m >= 1 there are
\* n = min(ceil(L/cs), m) chunks; chunk 0 starts at 0, every chunk starts
\* right after its predecessor's end, the last ends at L-1, every size is
\* end - start + 1 >= 1 and all chunks but the last have size floor(L/n).
C2_PartitionLaw ==
  pDone =>
    LET n == Min(CeilDiv(pL, pCS), pM) IN
      /\ Len(pChunks) = n
      /\ pChunks[1].Start = 0
      /\ pChunks[n].End = pL - 1
      /\ \A k \in 1..n :
           /\ pChunks[k].Index = k - 1
           /\ pChunks[k].Size = pChunks[k].End - pChunks[k].Start + 1
           /\ pChunks[k].Size >= 1
           /\ k < n => /\ pChunks[k + 1].Start = pChunks[k].End + 1
                       /\ pChunks[k].Size = pL \div n
      /\ \A o \in 0..(pL - 1) :
           Cardinality({k \in 1..n : pChunks[k].Start <= o /\ o <= pChunks[k].End}) = 1

\* A partition into at least three chunks whose last chunk absorbs a remainder.
C2_Witness ==
  /\ pDone /\ Len(pChunks) >= 3
  /\ pChunks[Len(pChunks)].Size > pChunks[1].Size

\* C3: at every moment of a chunked download, fresh or resumed from a state
\* file of an earlier run, every chunk has 0 <= completed <= size.
C3_CompletedWithinSize ==
  \A k \in 1..Len(chunks) :
     0 <= chunks[k].Completed /\ chunks[k].Completed <= chunks[k].Size

\* A resumed run that restored a partly fetched chunk from the state file.
C3_Witness ==
  /\ loaded
  /\ \E k \in 1..Len(chunks) :
       0 < chunks[k].Completed /\ chunks[k].Completed < chunks[k].Size

\* No ranged GET of the run failed or was refused.
NoNetworkFault ==
  /\ probe = "ok"
  /\ \A k \in 1..Len(terr) : terr[k] \notin {"range", "other"}

\* C4: resume idempotence.  A run with continue that restored the state of
\* an interrupted run, against the unchanged resource and without any
\* fault, returns success and leaves exactly the resource in the output.
C4_ResumeSucceeds ==
  (Returned /\ loaded /\ NoNetworkFault)
     => result = "ok" /\ out.ex /\ out.b = Data(L)

\* C5 as claimed: in a re-run that restored the state, no ranged GET is
\* issued for a chunk recorded Completed and exactly one, for bytes
\* start+completed through end, for every other chunk.
C5_OneGetPerUnfinishedChunk ==
  (Returned /\ loaded) =>
     \A k \in 1..Len(ld) :
        IF ld[k].Status = "Completed"
        THEN gets[k] = <<>>
        ELSE gets[k] = <<[from |-> ld[k].Start + ld[k].Completed,
                          to |-> ld[k].End]>>

\* C5 as amended: no ranged GET for a chunk recorded Completed or recorded
\* with completed = size; exactly one, for bytes start+completed through
\* end, for every other chunk.
C5_OneGetPerIncompleteChunk ==
  (Returned /\ loaded) =>
     \A k \in 1..Len(ld) :
        IF ld[k].Status = "Completed" \/ ld[k].Completed = ld[k].Size
        THEN gets[k] = <<>>
        ELSE gets[k] = <<[from |-> ld[k].Start + ld[k].Completed,
                          to |-> ld[k].End]>>

\* A resumed run that skipped a Completed chunk and asked for the missing
\* tail of a partly fetched one.
C5_Witness ==
  /\ Returned /\ loaded
  /\ \E j \in 1..Len(ld) : ld[j].Status = "Completed" /\ gets[j] = <<>>
  /\ \E k \in 1..Len(ld) :
       /\ ld[k].Status # "Completed" /\ ld[k].Completed > 0
       /\ Len(gets[k]) = 1 /\ gets[k][1].from = ld[k].Start + ld[k].Completed

\* One step of downloadSingle, as C6 describes it.
C6_Step ==
  /\ (dpc = "single" /\ dpc' # "single" /\ result' # "killed")
       => /\ (cont /\ out.ex /\ Len(out.b) > 0) => sreq'.rangeFrom = Len(out.b)
          /\ sreq'.status = 206 => (sreq'.rangeFrom > 0 /\ out' = out)
          /\ sreq'.status = 200 => out' = EmptyFile
          /\ sreq'.status \notin {200, 206}
               => (dpc' = "done" /\ result' = "err" /\ out' = out)
  /\ (dpc = "scopy" /\ result' = "ok")
       => /\ sreq.status = 206
               => /\ Len(out'.b) = sreq.rangeFrom + sreq.copied
                  /\ Len(out'.b) = L
          /\ sreq.status = 200
               => Len(out'.b) = sreq.copied /\ out'.b = Data(L)

\* C6: single-stream resume.  With continue and an existing output of size
\* s > 0 the GET carries Range: bytes=s-; a 206 appends, so the final size
\* is s plus the body length, the original total; a 200 truncates and
\* rewrites from offset 0, so the final size is the body length; any other
\* answer fails and leaves the file as it was.  Every step satisfies it.
C6_SingleResume == [][C6_Step]_vars

\* A single-stream run that resumed an existing partial file on a 206.
C6_Witness ==
  /\ Returned /\ result = "ok" /\ via = "single"
  /\ sreq.status = 206 /\ sreq.rangeFrom > 0 /\ sreq.copied > 0

\* C7: fallback.  When the 0-0 probe is answered with a status other than
\* 206, Download runs the single-stream download and returns its result,
\* no temp file is opened or created and no chunk task is launched; when
\* the probe fails otherwise, Download goes on with the chunked path.
C7_ProbeFallback ==
  /\ probe = "range"
       => /\ ~opened /\ NTasks = 0
          /\ dpc \in {"single", "scopy", "done"}
          /\ dpc = "done" => via = "single"
  /\ probe \in {"ok", "other"}
       => \/ dpc = "open"
          \/ opened
          \/ dpc = "done" /\ via = "chunked"

\* A download that fell back after the probe and whose single-stream
\* download succeeded.
C7_Witness ==
  /\ probe = "range" /\ Returned /\ result = "ok" /\ via = "single"
  /\ out.b = Data(L)

\* The goroutines that hold a semaphore slot.
Holders == {k \in 1..NTasks : tpc[k] \notin {"start", "done"}}

\* C8: bounded parallelism.  The tasks holding a semaphore slot are exactly
\* the tasks between acquire and exit, they are at most max_threads, and a
\* task that has exited, by success or failure, holds none.
C8_BoundedParallelism ==
  /\ sem = Cardinality(Holders)
  /\ sem <= m

\* One task has failed and exited while another still holds its slot.
C8_Witness ==
  /\ \E k \in 1..NTasks : tpc[k] = "done" /\ chunks[k].Status = "Failed"
  /\ \E k \in 1..NTasks : tpc[k] = "copy"
  /\ sem = 1

(***************************************************************************)
(* Properties of the URL queue.                                            *)
(***************************************************************************)
InitQ == Together(QuInit, PtIdle, DlIdle, Idle(RbInit, Idle(EtaIdle, Idle(SfIdle, Idle(CrIdle, Idle(CvIdle, Idle(SkIdle, Idle(LsIdle, Idle(QlIdle, Idle(MpIdle, Idle(PxIdle, Idle(WgIdle, Idle(RpIdle, DmIdle)))))))))))))

SpecQ == InitQ /\ [][QuNext]_vars

NoDup(q) == \A i, j \in 1..Len(q) : q[i] = q[j] => i = j

\* One queue operation, as C9 describes it.
C9_Step ==
  /\ NoDup(qJobs')
  /\ \A i \in (Len(qJobs) + 1)..Len(qJobs') :
        qJobs'[i] \notin qIndex /\ qJobs'[i] \notin visited
  /\ (qLast'.op = "Add" /\ qLast'.ok)
        => (qLast'.url \notin qIndex /\ qLast'.url \notin visited)

\* C9: after any sequence of queue operations the FIFO holds no two jobs
\* with the same URL, and a job enters the FIFO only if its URL was neither
\* in the in-queue set nor in visited; so of two Add(u) at most one
\* succeeds while u stays in the in-queue set or in visited.
C9_QueueDedup == [][C9_Step]_vars

\* An Add refused for a URL that was popped and marked visited, while
\* another job is queued.
C9_Witness ==
  /\ qLast.op = "Add" /\ ~qLast.ok
  /\ qLast.url \in visited /\ qLast.url \in qIndex
  /\ qLast.url \notin Range(qJobs)
  /\ Len(qJobs) >= 1

(***************************************************************************)
(* Properties of the robots parser.                                        *)
(***************************************************************************)
InitRobots == Together(RbInit, PtIdle, DlIdle, Idle(QuInit, Idle(EtaIdle, Idle(SfIdle, Idle(CrIdle, Idle(CvIdle, Idle(SkIdle, Idle(LsIdle, Idle(QlIdle, Idle(MpIdle, Idle(PxIdle, Idle(WgIdle, Idle(RpIdle, DmIdle)))))))))))))

SpecRobots == InitRobots /\ [][RbNext]_vars

\* A Disallow value that is a plain path prefix: no wildcard, no anchor.
PlainPrefix(x) == x # <<>> /\ \A i \in 1..Len(x) : x[i] \notin {"*", "$"}

\* C10: for the rule group that applies to the user agent, if the group
\* contains Disallow: /x and no Allow line, is_allowed is false for every
\* path that starts with /x; if every Disallow value of the group is empty
\* and it has no Allow line, every path is allowed.
C10_DisallowPrefixDenies ==
  rbQuery.asked =>
    LET r == getRule(rbRules, rbDefaults, rbQuery.ua) IN
      (r # 0 /\ rbRules[r].Allow = <<>>) =>
        /\ (\E i \in 1..Len(rbRules[r].lines) :
               /\ PlainPrefix(rbRules[r].lines[i])
               /\ HasPrefix(rbQuery.path, rbRules[r].lines[i]))
             => ~rbQuery.allowed
        /\ (\A i \in 1..Len(rbRules[r].lines) : rbRules[r].lines[i] = <<>>)
             => rbQuery.allowed
(***************************************************************************)
(* Properties of Download's return paths.                                  *)
(***************************************************************************)
\* C14: whenever a Download that entered the chunked path (it opened or
\* created <output>.tmp) returns success, <output> exists and neither
\* <output>.tmp nor <output>.wget2go.state exists.
C14_SuccessCleanup ==
  (Returned /\ result = "ok" /\ opened) => (out.ex /\ ~tmp.ex /\ ~st.ex)

\* C15: if a chunked download run with continue set fails, then when
\* Download returns both <output>.tmp and <output>.wget2go.state exist, and
\* the state file records the bytes completed by every chunk up to the
\* failure.
C15_FailureKeepsState ==
  (Returned /\ result = "err" /\ via = "chunked" /\ cont /\ opened)
    => /\ tmp.ex /\ st.ex /\ st.ok
       /\ \A k \in 1..Len(chunks) :
            \E j \in 1..Len(st.recs) :
              /\ st.recs[j].Index = chunks[k].Index
              /\ st.recs[j].Completed = chunks[k].Completed

C20_Edges ==
  { <<"Pending", "Downloading">>,
    <<"Downloading", "Completed">>, <<"Downloading", "Failed">>,
    <<"Downloading", "Paused">>,
    <<"Failed", "Downloading">>, <<"Paused", "Downloading">> }

C20_Step ==
  (dpc = "wait" /\ dpc' = "wait" /\ Len(chunks') = Len(chunks))
    => \A k \in 1..Len(chunks) :
         chunks'[k].Status # chunks[k].Status
           => <<chunks[k].Status, chunks'[k].Status>> \in C20_Edges

\* C20: every status change of a chunk follows one of the edges
\* Pending -> Downloading, Downloading -> Completed | Failed | Paused, or
\* Failed | Paused -> Downloading; a chunk is Downloading while its fetch
\* task runs, and a chunk that is Completed never changes status again.
C20_ChunkStateMachine == [][C20_Step]_vars

HeadRejected(resp) ==
  resp.err \/ resp.StatusCode \notin 200..299 \/ resp.ContentLength <= 0

C16_Step ==
  (dpc = "head" /\ hd' # NoHead /\ HeadRejected(hd'))
    => /\ dpc' = "done" /\ result' = "err"
       /\ Disk' = Disk
       /\ gets' = <<>> /\ probe' = "none" /\ sreq' = NoReq

\* C16: if the HEAD request fails, returns a non-2xx status, or reports
\* content_length <= 0, Download returns an error without issuing any GET
\* and without creating, truncating or deleting the output file, the temp
\* file or the state file.
C16_HeadFailureTouchesNothing == [][C16_Step]_vars

C16_Witness ==
  /\ dpc = "done" /\ via = "head" /\ result = "err"
  /\ ~hd.err /\ hd.StatusCode = 404
  /\ tmp.ex /\ st.ex

Decided == dpc \notin {"idle", "head"} /\ result # "killed" /\ via # "head"

\* C17: Download enters the chunked path (probe, partition, temp file) if
\* and only if chunk_size > 0 and content_length > chunk_size and the HEAD
\* response advertised Accept-Ranges: bytes; in every other case it performs
\* the single-stream download only and issues no probe.
C17_StrategyDecision ==
  Decided =>
    IF cs > 0 /\ hd.ContentLength > cs /\ hd.AcceptRanges
    THEN dpc = "probe" \/ probe # "none"
    ELSE /\ probe = "none" /\ ~opened /\ chunks = <<>>
         /\ dpc \in {"single", "scopy"} \/ via = "single"

C17_Witness ==
  /\ Decided /\ cs > 0 /\ hd.ContentLength > cs /\ hd.AcceptRanges
  /\ opened /\ Len(chunks) > 1 /\ dpc = "wait"

(***************************************************************************)
(* Properties of the utilities.                                            *)
(***************************************************************************)
InitETA == Together(EtaInit, PtIdle, DlIdle, Idle(QuInit, Idle(RbInit, Idle(SfIdle, Idle(CrIdle, Idle(CvIdle, Idle(SkIdle, Idle(LsIdle, Idle(QlIdle, Idle(MpIdle, Idle(PxIdle, Idle(WgIdle, Idle(RpIdle, DmIdle)))))))))))))

SpecETA == InitETA /\ [][EtaNext]_vars

\* C18: calculate_eta(total, done, speed) returns 0 whenever speed <= 0 or
\* done >= total, and otherwise returns (total - done) / speed seconds (to
\* the nanosecond a Duration counts in).
C18_ETA ==
  eta # <<>> =>
    LET e == eta[1]
        r == eT - eD
    IN  IF eS <= 0 \/ eD >= eT
        THEN e = Duration(0, 0)
        ELSE /\ e.sec * eS <= r /\ r < (e.sec + 1) * eS
             /\ e.nsec * eS <= (r - e.sec * eS) * 1000000000
             /\ (r - e.sec * eS) * 1000000000 < (e.nsec + 1) * eS

InitSafe == Together(SfInit, PtIdle, DlIdle, Idle(QuInit, Idle(RbInit, Idle(EtaIdle, Idle(CrIdle, Idle(CvIdle, Idle(SkIdle, Idle(LsIdle, Idle(QlIdle, Idle(MpIdle, Idle(PxIdle, Idle(WgIdle, Idle(RpIdle, DmIdle)))))))))))))

SpecSafe == InitSafe /\ [][SfNext]_vars

C19_Chars == {"<", ">", ":", "\"", "/", "\\", "|", "?", "*"}

\* C19: safe_file_name(s) replaces every occurrence of each of the
\* characters < > : " / \ | ? * by _ and leaves all other characters
\* unchanged, then truncates to at most 255 characters; the result contains
\* none of those characters, and applying safe_file_name twice gives the
\* same result as applying it once.
C19_SafeFileName ==
  fCalls >= 1 =>
    /\ Len(fOut) = Min(Len(fIn), NameMax)
    /\ \A i \in 1..Len(fOut) :
         /\ fOut[i] = IF fIn[i] \in C19_Chars THEN "_" ELSE fIn[i]
         /\ fOut[i] \notin C19_Chars

C19_Witness ==
  /\ fCalls = 2
  /\ Len(fIn) = NameMax + 1 /\ Len(fOut) = NameMax
  /\ fIn[NameMax] = "*" /\ fOut[NameMax] = "_"
  /\ fIn[NameMax + 1] = "C3"

(***************************************************************************)
(* Properties of the crawler.                                              *)
(***************************************************************************)
InitCrawl == Together(CrInit, PtIdle, DlIdle, Idle(QuInit, Idle(RbInit, Idle(EtaIdle, Idle(SfIdle, Idle(CvIdle, Idle(SkIdle, Idle(LsIdle, Idle(QlIdle, Idle(MpIdle, Idle(PxIdle, Idle(WgIdle, Idle(RpIdle, DmIdle)))))))))))))

SpecCrawl == InitCrawl /\ [][CrNext]_vars

\* C11: with recursive set and recursive_level = L > 0, pages are parsed for
\* links only at depth less than L, and no job with depth greater than L is
\* ever queued, marked visited, requested or written to disk.
C11_DepthCap ==
  (crCfg.Recursive /\ crCfg.RecursiveLevel > 0) =>
     /\ \A k \in 1..Len(crJobs) : crJobs[k].Level <= crCfg.RecursiveLevel
     /\ \A e \in crLog : e.Level <= crCfg.RecursiveLevel
     /\ \A e \in crLog : e.op = "parse" => e.Level < crCfg.RecursiveLevel

C11_Witness ==
  /\ crCfg.Recursive /\ crCfg.RecursiveLevel = 2
  /\ \E e \in crLog : e.Level = 2 /\ e.op = "write"
  /\ \E e \in crLog : e.Level = 1 /\ e.op = "parse"
  /\ crPc = "done" /\ Cardinality(crVisited) = 3


\* What robots.Parser.IsAllowed answers for the crawl's user agent, per
\* cached rule set and URL.
ParserVerdict ==
  [h \in CrawlHosts \ {<<>>} |->
     [u \in PageURLs |->
        IsAllowed(h[1].rules, h[1].defaults, ParseURL(u).Path, CrawlAgent)]]

\* C12: when robots_txt is honoured and the rule set cached for the host
\* disallows a URL's path, the crawler sends no HEAD and no GET for the URL
\* and writes no file for it; a URL it skips is one the rule set disallows,
\* so that allowed URLs are still downloaded.
C12_RobotsBlock ==
  (crCfg.RobotsTxt /\ crHost # <<>>) =>
     \A e \in crLog :
        /\ e.op \in {"HEAD", "GET", "write"} => ParserVerdict[crHost][e.URL]
        /\ e.op = "skip" => ~ParserVerdict[crHost][e.URL]


InitConv == Together(CvInit, PtIdle, DlIdle, Idle(QuInit, Idle(RbInit, Idle(EtaIdle, Idle(SfIdle, Idle(CrIdle, Idle(SkIdle, Idle(LsIdle, Idle(QlIdle, Idle(MpIdle, Idle(PxIdle, Idle(WgIdle, Idle(RpIdle, DmIdle)))))))))))))

SpecConv == InitConv /\ [][CvNext]_vars

\* A href/src value that names, from the directory of the file that holds
\* it, a file that exists under the output directory.
Resolves(fromFile, href) ==
  /\ href # <<>> /\ href[1] # "/"
  /\ ParseURL(href).Scheme = <<>>
  /\ Join(Dir(fromFile), href) \in cvFiles

\* C13: if every URL discovered in a saved HTML file has its downloaded
\* local file, then after ConvertAll every href/src of the file resolves,
\* relative to the file's own directory, to an existing file under the
\* output directory.
C13_RoundTrip ==
  (/\ cvPc = "converted"
   /\ \A i \in 1..Len(cvURLs) : getOutputPath(cvURLs[i], cvDir) \in cvFiles)
  => \A k \in 1..Len(AttrValues(cvData)) : Resolves(cvFile, AttrValues(cvData)[k])


C21_Step ==
  (dpc = "wait" /\ dpc' = "wait" /\ Len(chunks') = Len(chunks))
    => /\ \A k \in 1..Len(chunks) :
            (chunks'[k].Completed # chunks[k].Completed
               \/ chunks'[k].Status # chunks[k].Status) => mu' = k
       /\ (sv # <<>> /\ sv' # <<>> /\ sv.k <= Len(chunks)) => chunks' = chunks

\* C21: every update a fetch task makes to its chunk's completed counter or
\* status happens while the task holds the mutex of downloadChunks, and no
\* chunk record changes while a state save reads the chunks under that
\* mutex.
C21_MutexDiscipline == [][C21_Step]_vars


InitSeek == Together(SkInit, PtIdle, DlIdle, Idle(QuInit, Idle(RbInit, Idle(EtaIdle, Idle(SfIdle, Idle(CrIdle, Idle(CvIdle, Idle(LsIdle, Idle(QlIdle, Idle(MpIdle, Idle(PxIdle, Idle(WgIdle, Idle(RpIdle, DmIdle)))))))))))))

SpecSeek == InitSeek /\ [][SkNext]_vars

\* C22: in every interleaving of the chunk tasks the i-th byte received for
\* a chunk's request starting at offset o is at absolute file offset o + i:
\* every byte of the temp file is a byte of the resource at its own offset
\* or a hole, the bytes a task has written are in place, and a run in which
\* every chunk completed leaves the resource as the content of the file.
C22_OrderIndependentWrites ==
  /\ \A x \in 1..Len(skTmp) : skTmp[x] \in {0, x}
  /\ \A k \in 1..Len(skPc) : \A i \in 1..skGot[k] :
        /\ skChunks[k].Start + i <= Len(skTmp)
        /\ skTmp[skChunks[k].Start + i] = skChunks[k].Start + i
  /\ skMain = "ok" => skTmp = Data(skCfg.L)


\* The state file records the chunk of task k as Completed and full.
Recorded(file, k) ==
  /\ file.ex /\ file.ok
  /\ \E j \in 1..Len(file.recs) :
        /\ file.recs[j].Index = k - 1
        /\ file.recs[j].Status = StatusInt("Completed")
        /\ file.recs[j].Completed = file.recs[j].Size

C23_Step ==
  (dpc = "wait" /\ dpc' = "wait" /\ Len(tpc') = Len(tpc))
    => /\ Cardinality({k \in 1..Len(tpc') : tpc'[k] = "save"}) <= 1
       /\ \A k \in 1..Len(tpc) :
            /\ (tpc[k] = "save" /\ tpc'[k] = "done" /\ st' # st) => Recorded(st', k)
            /\ (tpc[k] = "save" /\ tpc'[k] = "done" /\ st' = st)
                 => /\ chunks'[k].Status = "Completed"
                    /\ errorCh' = errorCh
            /\ (Recorded(st, k) /\ tpc[k] = "done" /\ st'.ok) => Recorded(st', k)

\* C23: state saves are mutually exclusive; once a chunk task has completed
\* and its save has returned successfully the state file records the chunk
\* as Completed with completed = size, and no later save of the run
\* un-records it; a failing save fails neither the chunk nor the download.
C23_StatePersistence == [][C23_Step]_vars



\* C24: if the process is killed at any point of a state save, the state
\* file is afterwards a complete record, the previous one or the new one:
\* it is never left partially written or undecodable.
C24_AtomicStateSave == (result = "killed" /\ st.ex) => st.ok

InitLoad == Together(LsInit, PtIdle, DlIdle, Idle(QuInit, Idle(RbInit, Idle(EtaIdle, Idle(SfIdle, Idle(CrIdle, Idle(CvIdle, Idle(SkIdle, Idle(QlIdle, Idle(MpIdle, Idle(PxIdle, Idle(WgIdle, Idle(RpIdle, DmIdle)))))))))))))

SpecLoad == InitLoad /\ [][LsNext]_vars

\* The record of the state file for chunk index idx: the last one, as the
\* map built at lines 969-972 keeps it.
HasRecord(idx) == \E j \in 1..Len(lsFile.recs) : lsFile.recs[j].Index = idx

RecordOf(idx) ==
  lsFile.recs[CHOOSE j \in 1..Len(lsFile.recs) :
                /\ lsFile.recs[j].Index = idx
                /\ \A i \in (j + 1)..Len(lsFile.recs) : lsFile.recs[i].Index # idx]

\* C25: loadDownloadState returns false and changes nothing when no state
\* file exists; otherwise a chunk with a record of its index takes the
\* record's completed and status when start and end are equal and is reset to
\* 0 and Pending when they differ, and a chunk without a record stays fresh;
\* a save followed by a load into a fresh partition of the same shape restores
\* completed and status of every chunk.
C25_StateLoad ==
  lsPc = "loaded" =>
    /\ lsRet = lsFile.ex
    /\ Len(lsOut) = Len(lsChunks)
    /\ ~lsFile.ex => lsOut = lsChunks
    /\ lsFile.ex =>
         \A k \in 1..Len(lsChunks) :
           /\ lsOut[k].Index = lsChunks[k].Index
           /\ lsOut[k].Start = lsChunks[k].Start
           /\ lsOut[k].End = lsChunks[k].End
           /\ lsOut[k].Size = lsChunks[k].Size
           /\ ~HasRecord(lsChunks[k].Index) => lsOut[k] = lsChunks[k]
           /\ HasRecord(lsChunks[k].Index) =>
                IF /\ RecordOf(lsChunks[k].Index).Start = lsChunks[k].Start
                   /\ RecordOf(lsChunks[k].Index).End = lsChunks[k].End
                THEN /\ lsOut[k].Completed = lsSaved[lsChunks[k].Index + 1].Completed
                     /\ lsOut[k].Status = lsSaved[lsChunks[k].Index + 1].Status
                ELSE /\ lsOut[k].Completed = 0
                     /\ lsOut[k].Status = "Pending"
    /\ (lsFile.ex /\ Len(lsSaved) = Len(lsChunks)
          /\ \A k \in 1..Len(lsChunks) :
                /\ lsSaved[k].Start = lsChunks[k].Start
                /\ lsSaved[k].End = lsChunks[k].End)
         => lsOut = lsSaved

\* A load that restored a failed chunk with its bytes and reset another chunk
\* whose range had changed.
C25_Witness ==
  /\ lsPc = "loaded" /\ lsFile.ex
  /\ \E k \in 1..Len(lsChunks) :
        /\ HasRecord(lsChunks[k].Index)
        /\ RecordOf(lsChunks[k].Index).End = lsChunks[k].End
        /\ lsOut[k].Completed > 0 /\ lsOut[k].Status = "Failed"
  /\ \E k \in 1..Len(lsChunks) :
        /\ HasRecord(lsChunks[k].Index)
        /\ RecordOf(lsChunks[k].Index).End # lsChunks[k].End
        /\ lsSaved[lsChunks[k].Index + 1].Completed > 0

InitQL == Together(QlInit, PtIdle, DlIdle, Idle(QuInit, Idle(RbInit, Idle(EtaIdle, Idle(SfIdle, Idle(CrIdle, Idle(CvIdle, Idle(SkIdle, Idle(LsIdle, Idle(MpIdle, Idle(PxIdle, Idle(WgIdle, Idle(RpIdle, DmIdle)))))))))))))

SpecQL == InitQL /\ [][QlNext]_vars

\* C26: the mutations of the URL queue exclude one another, so concurrent
\* Peek, Pop, Remove and Clear never fail on an empty FIFO, and whenever no
\* call is in progress every URL of the FIFO is in the URL index.
C26_QueueLocking ==
  /\ ~qlFail
  /\ (\A t \in QlProcs : qlPc[t] = "idle") =>
        \A i \in 1..Len(qlJobs) : qlJobs[i] \in qlIndex

\* The groups of the parsed robots.txt that name the user agent of the query
\* and the groups for "*".
NamedGroups ==
  {i \in 1..Len(rbRules) :
     /\ rbRules[i].UserAgent # <<"*">>
     /\ Contains(ToLower(rbQuery.ua), ToLower(rbRules[i].UserAgent))}

StarGroups == {i \in 1..Len(rbRules) : rbRules[i].UserAgent = <<"*">>}

\* The group the claim selects: the first named one, else the * group (the
\* last one when robots.txt has several), else none (0).
SelectedGroup ==
  IF NamedGroups # {} THEN CHOOSE i \in NamedGroups : \A j \in NamedGroups : i <= j
  ELSE IF StarGroups # {} THEN CHOOSE i \in StarGroups : \A j \in StarGroups : j <= i
  ELSE 0

AllowHit(g) ==
  \E i \in 1..Len(rbRules[g].Allow) : matchPath(rbQuery.path, rbRules[g].Allow[i])

DisallowHit(g) ==
  \E i \in 1..Len(rbRules[g].Disallow) :
     matchPath(rbQuery.path, rbRules[g].Disallow[i])

\* C27: is_allowed uses the first rule group whose user agent is a
\* case-insensitive substring of the request's user agent, else the * group,
\* and allows when there is neither; in the selected group a path matching an
\* allow rule is allowed even if a disallow rule matches it too, a path
\* matching only a disallow rule is denied, any other path is allowed; no
\* other group has a say.
C27_RuleSelection ==
  rbQuery.asked =>
    IF SelectedGroup = 0 THEN rbQuery.allowed
    ELSE IF AllowHit(SelectedGroup) THEN rbQuery.allowed
    ELSE IF DisallowHit(SelectedGroup) THEN ~rbQuery.allowed
    ELSE rbQuery.allowed

\* The group named for the user agent allows a path that it also disallows.
C27_Witness ==
  /\ rbQuery.asked
  /\ NamedGroups # {}
  /\ AllowHit(SelectedGroup) /\ DisallowHit(SelectedGroup)
  /\ rbQuery.allowed

\* C28: with page_requisites set, the resources an HTML page that was
\* downloaded refers to are queued and processed, also when recursive is off
\* or the page is at depth recursive_level: when the crawl has returned, every
\* one of them has been taken from the queue.  (robots_txt off, so that no
\* META robots tag stops the page from being followed.)
C28_PageRequisites ==
  (crPc = "done" /\ crCfg.PageRequisites /\ ~crCfg.RobotsTxt)
     => crLinks \subseteq crVisited

\* C29: a job whose download fails is skipped only if continue is set; with
\* continue not set the crawl does not return success after a failed job.
C29_FailurePolicy ==
  (crPc = "done" /\ ~crCfg.Continue) => ~\E e \in crLog : e.op = "fail"

\* C30: a URL that is taken from the queue has not been taken before, and a
\* URL that is put into the queue is an HTTP URL that is not visited, not
\* queued and was not queued before.
C30_Step ==
  (crPc = "loop" /\ crPc' = "loop" /\ crJobs # <<>>) =>
     /\ Head(crJobs).URL \notin crVisited
     /\ \A k \in Len(crJobs)..Len(crJobs') :
          /\ HasPrefix(crJobs'[k].URL, <<"S", ":", "/", "/">>)
          /\ crJobs'[k].URL \notin crVisited'
          /\ crJobs'[k].URL \notin crIndex
          /\ \A j \in 1..(k - 1) : crJobs'[j].URL # crJobs'[k].URL

C30_ProcessedOnce == [][C30_Step]_vars

\* A crawl without a depth limit has returned; it parsed every page it
\* wrote, and every URL it visited, the start URL too, is linked from one of
\* those pages: the link graph has a cycle.
C30_Witness ==
  /\ crPc = "done"
  /\ crCfg.Recursive /\ crCfg.RecursiveLevel = 0 /\ ~crCfg.RobotsTxt
  /\ Cardinality(crVisited) >= 3
  /\ crVisited \subseteq crLinks

InitMap == Together(MpInit, PtIdle, DlIdle, Idle(QuInit, Idle(RbInit, Idle(EtaIdle, Idle(SfIdle, Idle(CrIdle, Idle(CvIdle, Idle(SkIdle, Idle(LsIdle, Idle(QlIdle, Idle(PxIdle, Idle(WgIdle, Idle(RpIdle, DmIdle)))))))))))))

SpecMap == InitMap /\ [][MpNext]_vars

\* C31: for every http URL, the local path the link rewriter computes for it
\* under base dir output_dir is the path at which the crawler saves it.
C31_MappingAgreement ==
  (mpPc.saved /\ mpPc.mapped) => mpTarget = mpSaved

\* C32: with backup enabled, after any number of ConvertAll invocations on a
\* registered file, <file>.orig holds the content the file had before the
\* first rewrite, and after RestoreBackup the file has that content again
\* and the .orig file is gone.
C32_BackupOnRewrite ==
  /\ cvPc = "converted" => cvOrig = <<cvSaved>>
  /\ cvPc = "restored" => (cvData = cvSaved /\ cvOrig = <<>>)

InitProxy == Together(PxInit, PtIdle, DlIdle, Idle(QuInit, Idle(RbInit, Idle(EtaIdle, Idle(SfIdle, Idle(CrIdle, Idle(CvIdle, Idle(SkIdle, Idle(LsIdle, Idle(QlIdle, Idle(MpIdle, Idle(WgIdle, Idle(RpIdle, DmIdle)))))))))))))

SpecProxy == InitProxy /\ [][PxNext]_vars

\* The positions chosen from one proxy list, in the order of the requests.
RECURSIVE Chosen(_, _)
Chosen(log, list) ==
  IF log = <<>> THEN <<>>
  ELSE IF Head(log).list = list THEN <<Head(log).pos>> \o Chosen(Tail(log), list)
  ELSE Chosen(Tail(log), list)

\* The selections from a list of k proxies go through the list in order.
Cycles(sel, k) ==
  /\ sel # <<>> => sel[1] = 1
  /\ \A i \in 1..(Len(sel) - 1) : sel[i + 1] = (sel[i] % k) + 1
  /\ \A i \in 1..(Len(sel) - k + 1) : {sel[j] : j \in i..(i + k - 1)} = 1..k

\* C33: the selections from a proxy list of k >= 1 proxies cycle through it
\* in configured order, so that k consecutive selections use every proxy
\* once; an https target selects from https_proxy when that list is not
\* empty and from http_proxy otherwise, an http target from http_proxy; a
\* host that no_proxy matches gets no proxy and advances no index.
C33_RoundRobin ==
  /\ pxCfg.http >= 1 => Cycles(Chosen(pxLog, "http"), pxCfg.http)
  /\ pxCfg.https >= 1 => Cycles(Chosen(pxLog, "https"), pxCfg.https)
  /\ pxHttpIndex = Len(Chosen(pxLog, "http"))
  /\ pxHttpsIndex = Len(Chosen(pxLog, "https"))
  /\ \A i \in 1..Len(pxLog) :
        pxLog[i].list =
          IF isNoProxy(pxCfg.noProxy, pxLog[i].host) THEN "none"
          ELSE IF pxLog[i].scheme = "https" /\ pxCfg.https >= 1 THEN "https"
          ELSE IF pxCfg.http >= 1 THEN "http"
          ELSE "none"

\* Two proxies in http_proxy and none in https_proxy: an http request, a
\* request to a no_proxy host and an https request, in this order.
C33_Witness ==
  /\ pxCfg.http = 2 /\ pxCfg.https = 0
  /\ Len(pxLog) = 3
  /\ pxLog[1].scheme = "http" /\ pxLog[1].pos = 1
  /\ pxLog[2].list = "none" /\ isNoProxy(pxCfg.noProxy, pxLog[2].host)
  /\ pxLog[3].scheme = "https" /\ pxLog[3].pos = 2

\* C34: a request carries Proxy-Authorization only if a proxy is selected
\* for its target and proxy credentials are configured.
C34_ProxyAuthOnlyViaProxy ==
  \A i \in 1..Len(pxLog) :
     pxLog[i].auth => (pxLog[i].list # "none" /\ pxCfg.creds)

\* C35: for the rule set cached for a host, every URL of the host and every
\* user agent, the queue manager's IsAllowedByRobots gives the verdict of
\* the robots parser's IsAllowed; with no rule set cached it returns true.
C35_ManagerAgreesWithParser ==
  rbQuery.asked =>
    IF rbQuery.cached THEN rbQuery.manager = rbQuery.allowed
    ELSE rbQuery.manager

InitWait == Together(WgInit, PtIdle, DlIdle, Idle(QuInit, Idle(RbInit, Idle(EtaIdle, Idle(SfIdle, Idle(CrIdle, Idle(CvIdle, Idle(SkIdle, Idle(LsIdle, Idle(QlIdle, Idle(MpIdle, Idle(PxIdle, Idle(RpIdle, DmIdle)))))))))))))

SpecWait == InitWait /\ [][WgNext]_vars

\* C36: a chunked download never comes to a standstill before it has
\* returned: as long as downloadChunks has not returned, the loop, a chunk
\* goroutine or the wait can take a step, also when every chunk fails and
\* nobody receives from cd.errorCh.
C36_DeadlockFree ==
  wgMain \in {"loop", "wait", "drain"} => ENABLED WgNext

\* The crawl under fair scheduling: Download is entered, every processJob
\* returns (each HTTP request terminates), and the loop test is evaluated.
SpecCrawlFair ==
  /\ InitCrawl
  /\ [][CrNext]_vars
  /\ WF_vars(\E o \in Outcomes : ProcessJob(o))
  /\ WF_vars(CrFinish)

\* C37: a crawl that has entered its loop leaves it: unless the context is
\* cancelled, Download returns with an empty queue, also on cyclic link
\* graphs and with recursive_level = 0.
C37_CrawlTerminates ==
  (crPc = "loop") ~> (crPc = "cancelled" \/ (crPc = "done" /\ crJobs = <<>>))

\* A finished unbounded-depth crawl in which two parsed pages are both link
\* targets (the start page is linked back to).
C37_Witness ==
  /\ crPc = "done" /\ crJobs = <<>>
  /\ crCfg.Recursive /\ crCfg.RecursiveLevel = 0
  /\ \E a, b \in crLinks :
       /\ a # b
       /\ \A u \in {a, b} : \E e \in crLog : e.URL = u /\ e.op = "parse"

InitReport == Together(RpInit, PtIdle, DlIdle, Idle(QuInit, Idle(RbInit, Idle(EtaIdle, Idle(SfIdle, Idle(CrIdle, Idle(CvIdle, Idle(SkIdle, Idle(LsIdle, Idle(QlIdle, Idle(MpIdle, Idle(PxIdle, Idle(WgIdle, DmIdle)))))))))))))

SpecReport == InitReport /\ [][RpNext]_vars

\* The reporter and the download under fair scheduling: the download
\* returns and the reporter's goroutine runs whenever it can; Stop(), the
\* cancellation and the receiver are the caller's and need not happen.
SpecReportFair ==
  /\ SpecReport
  /\ WF_vars(\E err \in BOOLEAN : RpReturn(err))
  /\ WF_vars(RpDone)
  /\ WF_vars(RpTick)
  /\ WF_vars(RpSend)

\* C38: the progress reporter is never blocked in its send on a full
\* progress channel that nobody receives from, and once Download has
\* returned the reporter eventually stops, whether or not Stop() is called
\* or the context is cancelled.
C38_ReporterStops ==
  /\ [](~(rpPc = "send" /\ rpProgress = ProgressChCap /\ ~rpReceiver))
  /\ (rpMain \in {"nil", "error"}) ~> (rpPc = "stopped")

InitManager == Together(DmInit, PtIdle, DlIdle, Idle(QuInit, Idle(RbInit, Idle(EtaIdle, Idle(SfIdle, Idle(CrIdle, Idle(CvIdle, Idle(SkIdle, Idle(LsIdle, Idle(QlIdle, Idle(MpIdle, Idle(PxIdle, Idle(WgIdle, RpIdle)))))))))))))

SpecManager == InitManager /\ [][DmNext]_vars

\* C39: Download is invoked at most once for a task (one that was never
\* paused and resumed), whatever the interleaving of Start calls, and
\* outside PauseTask and ResumeTask a task's status moves only from
\* Pending to Downloading and from Downloading to Completed or Failed.
C39_RunsOnce ==
  /\ [](\A i \in 1..Len(dmObjs) : ~dmObjs[i].resumed => dmObjs[i].calls <= 1)
  /\ [][\A i \in 1..Len(dmObjs) :
          LET old == dmObjs[i].Status
              new == dmObjs'[i].Status
          IN  (new # old /\ old # "Paused" /\ new # "Paused") =>
                \/ old = "Pending" /\ new = "Downloading"
                \/ old = "Downloading" /\ new \in {"Completed", "Failed"}]_vars

\* C40: a task becomes Paused only from Downloading (PauseTask), and a
\* Paused task keeps that status until ResumeTask sets it to Pending or
\* RemoveTask takes it out of dm.tasks; the end of its download in flight
\* does not overwrite Paused.
C40_PausedStays ==
  [][\A i \in 1..Len(dmObjs) :
       LET old == dmObjs[i].Status
           new == dmObjs'[i].Status
       IN  /\ (new = "Paused" /\ old # "Paused") => old = "Downloading"
           /\ (old = "Paused" /\ new # "Paused") => new = "Pending"]_vars

====
